---- MODULE Spec2Model ----
(***************************************************************************)
(* Model of the coupled-harmonic-oscillator solver:                        *)
(*   - CoupledOscillator (constructor/_compute, position, velocity,        *)
(*     acceleration, valueAtTime, firstTimeTo),                            *)
(*   - Physics.solve of the browser build,                                 *)
(*   - the term lists generateLatex.massSolution hands to buildExpression, *)
(*   - the fraction functions of fraction.js and fractions.js, and the     *)
(*     expression builders of latex.js and Physics.generateLatex.          *)
(*                                                                         *)
(* JavaScript numbers are modelled as extended rationals [n, d]:           *)
(*   d > 0  a finite value n/d in lowest terms,                            *)
(*   d = 0  a non-finite value: n = 1 (+Infinity), n = -1 (-Infinity),     *)
(*          n = 0 (NaN).                                                   *)
(* Arithmetic is exact; Math.sqrt is exact on perfect squares, and the     *)
(* configurations are drawn from those whose radicands are perfect squares *)
(* (rational mode frequencies).  Math.cos / Math.sin are evaluated in      *)
(* fixed point with TrigScale steps per unit, exact at angle 0.  Times are *)
(* multiples of 1/TimeScale.                                               *)
(***************************************************************************)
EXTENDS Integers, Sequences, FiniteSets, TLC

\* ------------------------------------------------------------------------
\* Bounds of the model
\* ------------------------------------------------------------------------
MaxK == 4          \* spring constants range over 0..MaxK
MaxMass == 2       \* masses range over 1..MaxMass
MaxKAny == 1       \* spring constants of the configurations with any mass
MaxEvalTime == 1   \* evaluation times are 0..MaxEvalTime steps of EvalStep ticks

\* Resolution of the number model
TimeScale == 4     \* ticks per unit of time
TrigScale == 1000  \* fixed-point steps per unit in Math.cos / Math.sin
RootScale == 100   \* fallback resolution of Math.sqrt off perfect squares

\* ------------------------------------------------------------------------
\* Extended rational arithmetic (IEEE-754 semantics of +, -, *, /, <, Math.*)
\* ------------------------------------------------------------------------
AbsInt(i) == IF i < 0 THEN -i ELSE i

SgnInt(i) == IF i < 0 THEN -1 ELSE IF i > 0 THEN 1 ELSE 0

RECURSIVE GCD(_, _)
GCD(x, y) == IF y = 0 THEN x ELSE GCD(y, x % y)

Norm(n, d) ==
  IF d = 0 THEN [n |-> SgnInt(n), d |-> 0]
  ELSE LET g == GCD(AbsInt(n), AbsInt(d))
           s == IF d < 0 THEN -SgnInt(n) ELSE SgnInt(n)
       IN  [n |-> s * (AbsInt(n) \div g), d |-> AbsInt(d) \div g]

R(i) == [n |-> i, d |-> 1]

NaN == [n |-> 0, d |-> 0]

PosInf == [n |-> 1, d |-> 0]

IsNaN(x) == x.d = 0 /\ x.n = 0

IsFinite(x) == x.d # 0

Neg(x) == [n |-> -x.n, d |-> x.d]

Add(x, y) ==
  IF x.d = 0 /\ y.d = 0
    THEN (IF x.n = y.n THEN x ELSE NaN)
    ELSE Norm(x.n * y.d + y.n * x.d, x.d * y.d)

Sub(x, y) == Add(x, Neg(y))

Mul(x, y) == Norm(x.n * y.n, x.d * y.d)

Div(x, y) ==
  IF x.d = 0 /\ y.d # 0
    THEN [n |-> IF y.n < 0 THEN -x.n ELSE x.n, d |-> 0]
    ELSE Norm(x.n * y.d, x.d * y.n)

AbsR(x) == [n |-> AbsInt(x.n), d |-> x.d]

\* x < y; false when either side is NaN
Lt(x, y) ==
  /\ ~IsNaN(x)
  /\ ~IsNaN(y)
  /\ IF x.d = 0 /\ y.d = 0 THEN x.n < y.n ELSE x.n * y.d < y.n * x.d

\* x === y on numbers; NaN differs from itself
EqR(x, y) == ~IsNaN(x) /\ ~IsNaN(y) /\ x = y

Le(x, y) == Lt(x, y) \/ EqR(x, y)

\* Math.max(0, x)
Max0(x) == IF IsNaN(x) THEN NaN ELSE IF Lt(x, R(0)) THEN R(0) ELSE x

RECURSIVE FloorDivPow10(_, _)
FloorDivPow10(i, e) == IF e = 0 THEN i ELSE FloorDivPow10(i \div 10, e - 1)

CeilDivPow10(i, e) == IF i = 0 THEN 0 ELSE FloorDivPow10(i - 1, e) + 1

\* |x| < y * 10^-e  for y >= 0 (the thresholds 1e-14, 1e-12, 1e-10 * scale)
AbsLtPow(x, y, e) ==
  /\ ~IsNaN(x)
  /\ ~IsNaN(y)
  /\ IF x.d = 0 THEN FALSE
     ELSE IF y.d = 0 THEN y.n > 0
     ELSE AbsInt(x.n) * y.d < CeilDivPow10(y.n * x.d, e)

\* x > 10^-e
GtPow(x, e) ==
  /\ ~IsNaN(x)
  /\ IF x.d = 0 THEN x.n > 0 ELSE x.n > FloorDivPow10(x.d, e)

RECURSIVE ISqrtIn(_, _, _)
ISqrtIn(i, lo, hi) ==
  IF hi - lo <= 1 THEN lo
  ELSE LET mid == (lo + hi) \div 2
       IN  IF mid * mid <= i THEN ISqrtIn(i, mid, hi) ELSE ISqrtIn(i, lo, mid)

\* floor of the square root of a natural number (bisection between 0 and 2^15.5)
ISqrt(i) == ISqrtIn(i, 0, 46341)

IsSquare(i) == i >= 0 /\ ISqrt(i) * ISqrt(i) = i

\* Math.sqrt: NaN below zero, exact on perfect squares
Sqrt(x) ==
  IF IsNaN(x) THEN NaN
  ELSE IF x.d = 0 THEN (IF x.n > 0 THEN PosInf ELSE NaN)
  ELSE IF x.n < 0 THEN NaN
  ELSE IF IsSquare(x.n) /\ IsSquare(x.d) THEN Norm(ISqrt(x.n), ISqrt(x.d))
  ELSE Norm(ISqrt(x.n * x.d * RootScale * RootScale), x.d * RootScale)

\* the radicand has an exact root (or none at all)
ExactRoot(x) == x.d = 0 \/ x.n < 0 \/ (IsSquare(x.n) /\ IsSquare(x.d))

\* ------------------------------------------------------------------------
\* Math.cos / Math.sin in fixed point (TrigScale steps per unit)
\* ------------------------------------------------------------------------
PiS == (355 * TrigScale + 56) \div 113

TwoPiS == (710 * TrigScale + 56) \div 113

HalfPiS == (355 * TrigScale + 113) \div 226

ClampS(i) == IF i > TrigScale THEN TrigScale ELSE IF i < 0 THEN 0 ELSE i

\* cosine on [0, pi/2], Taylor polynomial to the 8th power
CosQ(y) ==
  LET y2 == (y * y) \div TrigScale
      y4 == (y2 * y2) \div TrigScale
      y6 == (y4 * y2) \div TrigScale
      y8 == (y4 * y4) \div TrigScale
  IN  ClampS(TrigScale - (y2 \div 2) + (y4 \div 24) - (y6 \div 720) + (y8 \div 40320))

\* sine on [0, pi/2], Taylor polynomial to the 7th power
SinQ(y) ==
  LET y2 == (y * y) \div TrigScale
      y3 == (y * y2) \div TrigScale
      y5 == (y3 * y2) \div TrigScale
      y7 == (y5 * y2) \div TrigScale
  IN  ClampS(y - (y3 \div 6) + (y5 \div 120) - (y7 \div 5040))

CosS(a) ==
  LET r == a % TwoPiS
      h == IF r > PiS THEN TwoPiS - r ELSE r
  IN  IF h > HalfPiS THEN -CosQ(PiS - h) ELSE CosQ(h)

SinS(a) ==
  LET r == a % TwoPiS
      h == IF r > PiS THEN r - PiS ELSE r
      v == IF h > HalfPiS THEN SinQ(PiS - h) ELSE SinQ(h)
  IN  IF r > PiS THEN -v ELSE v

\* w * t in fixed point, for a finite frequency w and a time of t ticks
AngleS(w, t) == (2 * w.n * t * TrigScale + w.d * TimeScale) \div (2 * w.d * TimeScale)

\* Math.cos(w * t)
Cos(w, t) == IF w.d = 0 THEN NaN ELSE Norm(CosS(AngleS(w, t)), TrigScale)

\* Math.sin(w * t)
Sin(w, t) == IF w.d = 0 THEN NaN ELSE Norm(SinS(AngleS(w, t)), TrigScale)

\* ------------------------------------------------------------------------
\* CoupledOscillator
\* ------------------------------------------------------------------------
Eps14 == 14   \* the threshold 1e-14 of _compute

Coeffs(cw1, sw1, cw2, sw2) == [cw1 |-> cw1, sw1 |-> sw1, cw2 |-> cw2, sw2 |-> sw2]

\* _compute, line 44: the radicand of disc, from a, b and c2
Radicand(a, b, c2) == Add(Mul(Sub(a, b), Sub(a, b)), Mul(R(4), c2))

\* _compute, lines 44-46: disc, lam1 and lam2 from a, b and the radicand
EigenPair(a, b, rad) ==
  [rad  |-> rad,
   lam1 |-> Div(Sub(Add(a, b), Sqrt(rad)), R(2)),
   lam2 |-> Div(Add(Add(a, b), Sqrt(rad)), R(2))]

\* _compute, lines 40-46: the eigenvalues of the dynamics matrix
Lambdas(p) ==
  LET a  == Div(R(p.k1 + p.k2), R(p.m1))
      b  == Div(R(p.k2 + p.k3), R(p.m2))
      c2 == Div(R(p.k2 * p.k2), R(p.m1 * p.m2))
  IN  EigenPair(a, b, Radicand(a, b, c2))

\* Uncoupled dividing by the frequencies without the 1e-14 guards
UncoupledUnguarded(p) ==
  LET w1u == Sqrt(Max0(Div(R(p.k1), R(p.m1))))
      w2u == Sqrt(Max0(Div(R(p.k3), R(p.m2))))
      B1  == Div(R(p.v10), w1u)
  IN  [branch |-> "uncoupled",
       omega1 |-> w1u, omega2 |-> w2u,
       r1 |-> R(0), r2 |-> R(0),
       A1 |-> R(p.x10), A2 |-> R(0), B1 |-> B1, B2 |-> R(0),
       coeffs1 |-> Coeffs(R(p.x10), B1, R(0), R(0)),
       coeffs2 |-> Coeffs(R(0), R(0), R(p.x20), Div(R(p.v20), w2u))]

\* _compute, lines 56-76: the uncoupled branch
Uncoupled(p) ==
  LET w1u == Sqrt(Max0(Div(R(p.k1), R(p.m1))))
      w2u == Sqrt(Max0(Div(R(p.k3), R(p.m2))))
      B1  == IF GtPow(w1u, Eps14) THEN Div(R(p.v10), w1u) ELSE R(0)
  IN  [branch |-> "uncoupled",
       omega1 |-> w1u, omega2 |-> w2u,
       r1 |-> R(0), r2 |-> R(0),
       A1 |-> R(p.x10), A2 |-> R(0), B1 |-> B1, B2 |-> R(0),
       coeffs1 |-> Coeffs(R(p.x10), B1, R(0), R(0)),
       coeffs2 |-> Coeffs(R(0), R(0), R(p.x20),
                          IF GtPow(w2u, Eps14) THEN Div(R(p.v20), w2u) ELSE R(0))]

\* Amplitudes giving mass 2 the ratio r1 in both modes
AmplitudesOneRatio(p, w1, w2, r1, r2) ==
  LET denom == Sub(r1, r2)
      degenerate == AbsLtPow(denom, R(1), Eps14)
      A1    == IF degenerate THEN R(p.x10)
               ELSE Div(Sub(R(p.x20), Mul(r2, R(p.x10))), denom)
      A2    == IF degenerate THEN R(0) ELSE Sub(R(p.x10), A1)
      noB   == degenerate \/ AbsLtPow(w1, R(1), Eps14)
      B1    == IF noB THEN (IF GtPow(w1, Eps14) THEN Div(R(p.v10), w1) ELSE R(0))
               ELSE Div(Sub(R(p.v20), Mul(r2, R(p.v10))), Mul(w1, denom))
      B2    == IF noB THEN R(0)
               ELSE IF GtPow(w2, Eps14) THEN Div(Sub(R(p.v10), Mul(w1, B1)), w2)
               ELSE R(0)
  IN  [branch |-> IF degenerate THEN "degenerate" ELSE "normal",
       omega1 |-> w1, omega2 |-> w2,
       r1 |-> r1, r2 |-> r2,
       A1 |-> A1, A2 |-> A2, B1 |-> B1, B2 |-> B2,
       coeffs1 |-> Coeffs(A1, B1, A2, B2),
       coeffs2 |-> Coeffs(Mul(r1, A1), Mul(r1, B1), Mul(r1, A2), Mul(r1, B2))]

\* _compute, lines 84-119: the mode amplitudes from the frequencies and the
\* eigenvector ratios, and the stored coefficient groups
Amplitudes(p, w1, w2, r1, r2) ==
  LET denom == Sub(r1, r2)
      degenerate == AbsLtPow(denom, R(1), Eps14)
      A1    == IF degenerate THEN R(p.x10)
               ELSE Div(Sub(R(p.x20), Mul(r2, R(p.x10))), denom)
      A2    == IF degenerate THEN R(0) ELSE Sub(R(p.x10), A1)
      noB   == degenerate \/ AbsLtPow(w1, R(1), Eps14)
      B1    == IF noB THEN (IF GtPow(w1, Eps14) THEN Div(R(p.v10), w1) ELSE R(0))
               ELSE Div(Sub(R(p.v20), Mul(r2, R(p.v10))), Mul(w1, denom))
      B2    == IF noB THEN R(0)
               ELSE IF GtPow(w2, Eps14) THEN Div(Sub(R(p.v10), Mul(w1, B1)), w2)
               ELSE R(0)
  IN  [branch |-> IF degenerate THEN "degenerate" ELSE "normal",
       omega1 |-> w1, omega2 |-> w2,
       r1 |-> r1, r2 |-> r2,
       A1 |-> A1, A2 |-> A2, B1 |-> B1, B2 |-> B2,
       coeffs1 |-> Coeffs(A1, B1, A2, B2),
       coeffs2 |-> Coeffs(Mul(r1, A1), Mul(r1, B1), Mul(r2, A2), Mul(r2, B2))]

\* _compute, lines 48-49 and 80-81: frequencies and eigenvector ratios
CoupledModes(p, L) ==
  Amplitudes(p,
             Sqrt(Max0(L.lam1)),
             Sqrt(Max0(L.lam2)),
             Div(Sub(R(p.k1 + p.k2), Mul(L.lam1, R(p.m1))), R(p.k2)),
             Div(Sub(R(p.k1 + p.k2), Mul(L.lam2, R(p.m1))), R(p.k2)))

\* _compute, lines 39-49 and 78-119: the coupled case
Coupled(p) == CoupledModes(p, Lambdas(p))

\* _compute: the derived fields of the instance
Compute(p) ==
  IF AbsLtPow(R(p.k2), R(1), Eps14) THEN Uncoupled(p) ELSE Coupled(p)

\* the trig sum of position / make: c1 cos(w1 t) + s1 sin(w1 t) + c2 cos(w2 t) + s2 sin(w2 t)
TrigSum(c1, s1, c2, s2, w1, w2, t) ==
  Add(Add(Add(Mul(c1, Cos(w1, t)), Mul(s1, Sin(w1, t))),
          Mul(c2, Cos(w2, t))),
      Mul(s2, Sin(w2, t)))

SelectCoeffs(o, mass) == IF mass = 1 THEN o.coeffs1 ELSE o.coeffs2

\* position(mass, t)
Position(o, mass, t) ==
  LET c == SelectCoeffs(o, mass)
  IN  TrigSum(c.cw1, c.sw1, c.cw2, c.sw2, o.omega1, o.omega2, t)

\* velocity(mass, t)
Velocity(o, mass, t) ==
  LET c  == SelectCoeffs(o, mass)
      w1 == o.omega1
      w2 == o.omega2
  IN  Add(Add(Add(Mul(Mul(Neg(c.cw1), w1), Sin(w1, t)),
                  Mul(Mul(c.sw1, w1), Cos(w1, t))),
              Mul(Mul(Neg(c.cw2), w2), Sin(w2, t))),
          Mul(Mul(c.sw2, w2), Cos(w2, t)))

\* Acceleration with each term multiplied by omega once, not twice
AccelerationOnce(o, mass, t) ==
  LET c  == SelectCoeffs(o, mass)
      w1 == o.omega1
      w2 == o.omega2
  IN  Sub(Add(Sub(Mul(Mul(Neg(c.cw1), w1), Cos(w1, t)),
                  Mul(Mul(c.sw1, w1), Sin(w1, t))),
              Mul(Mul(Neg(c.cw2), w2), Cos(w2, t))),
          Mul(Mul(c.sw2, w2), Sin(w2, t)))

\* acceleration(mass, t)
Acceleration(o, mass, t) ==
  LET c  == SelectCoeffs(o, mass)
      w1 == o.omega1
      w2 == o.omega2
  IN  Sub(Add(Sub(Mul(Mul(Mul(Neg(c.cw1), w1), w1), Cos(w1, t)),
                  Mul(Mul(Mul(c.sw1, w1), w1), Sin(w1, t))),
              Mul(Mul(Mul(Neg(c.cw2), w2), w2), Cos(w2, t))),
          Mul(Mul(Mul(c.sw2, w2), w2), Sin(w2, t)))

\* valueAtTime(t)
ValueAtTime(o, t) ==
  [x1 |-> Position(o, 1, t), v1 |-> Velocity(o, 1, t), a1 |-> Acceleration(o, 1, t),
   x2 |-> Position(o, 2, t), v2 |-> Velocity(o, 2, t), a2 |-> Acceleration(o, 2, t)]

\* ------------------------------------------------------------------------
\* generateLatex.massSolution: the terms handed to buildExpression
\* ------------------------------------------------------------------------
Term(coeff, trigFn, omegaLabel) ==
  [coeff |-> coeff, trigFn |-> trigFn, omegaLabel |-> omegaLabel]

PosParts(c) ==
  << Term(c.cw1, "cos", 1), Term(c.sw1, "sin", 1),
     Term(c.cw2, "cos", 2), Term(c.sw2, "sin", 2) >>

\* VelParts with the sign of the sine terms lost
VelPartsUnsigned(c, w1, w2) ==
  << Term(Mul(c.cw1, w1), "sin", 1), Term(Mul(c.sw1, w1), "cos", 1),
     Term(Mul(c.cw2, w2), "sin", 2), Term(Mul(c.sw2, w2), "cos", 2) >>

VelParts(c, w1, w2) ==
  << Term(Mul(Neg(c.cw1), w1), "sin", 1), Term(Mul(c.sw1, w1), "cos", 1),
     Term(Mul(Neg(c.cw2), w2), "sin", 2), Term(Mul(c.sw2, w2), "cos", 2) >>

AccParts(c, w1, w2) ==
  << Term(Mul(Mul(Neg(c.cw1), w1), w1), "cos", 1),
     Term(Mul(Mul(Neg(c.sw1), w1), w1), "sin", 1),
     Term(Mul(Mul(Neg(c.cw2), w2), w2), "cos", 2),
     Term(Mul(Mul(Neg(c.sw2), w2), w2), "sin", 2) >>

MassSolution(c, w1, w2) ==
  [x |-> PosParts(c), v |-> VelParts(c, w1, w2), a |-> AccParts(c, w1, w2)]

\* ------------------------------------------------------------------------
\* Physics.solve
\* ------------------------------------------------------------------------
Eps12 == 12   \* the threshold 1e-12 of eigenvector and of B1, B2
Eps24 == 24   \* the threshold 1e-24 of parallel
Eps10 == 10   \* the relative threshold 1e-10 of parallel

\* eigenvector(a11, a12, a21, a22, lambda)
Eigenvector(a11, a12, a21, a22, lambda) ==
  IF GtPow(AbsR(a12), Eps12) THEN << a12, Sub(lambda, a11) >>
  ELSE IF GtPow(AbsR(a21), Eps12) THEN << Sub(lambda, a22), a21 >>
  ELSE IF Le(AbsR(Sub(lambda, a11)), AbsR(Sub(lambda, a22))) THEN << R(1), R(0) >>
  ELSE << R(0), R(1) >>

\* parallel(u, v)
Parallel(u, v) ==
  LET cross == Sub(Mul(u[1], v[2]), Mul(u[2], v[1]))
      scale == Mul(Add(AbsR(u[1]), AbsR(u[2])), Add(AbsR(v[1]), AbsR(v[2])))
  IN  AbsLtPow(scale, R(1), Eps24) \/ AbsLtPow(cross, scale, Eps10)

IsZeroVec(u) == EqR(u[1], R(0)) /\ EqR(u[2], R(0))

\* solve, lines 479-486: the eigenvalues from the entries of A
SolveLambdas(a11, a12, a21, a22, tr, disc) ==
  [a11 |-> a11, a12 |-> a12, a21 |-> a21, a22 |-> a22,
   rad  |-> Max0(disc),
   lam1 |-> Max0(Div(Sub(tr, Sqrt(Max0(disc))), R(2))),
   lam2 |-> Max0(Div(Add(tr, Sqrt(Max0(disc))), R(2)))]

\* solve, lines 476-482: A = M^-1 K, its trace and discriminant
SolveMatrix(a11, a12, a21, a22) ==
  SolveLambdas(a11, a12, a21, a22,
               Add(a11, a22),
               Sub(Mul(Add(a11, a22), Add(a11, a22)),
                   Mul(R(4), Sub(Mul(a11, a22), Mul(a12, a21)))))

\* solve, lines 464-477: the stiffness matrix of the topology
SolveEigen(p) ==
  LET K00 == p.k1 + p.k2
      K01 == -p.k2
      K10 == -p.k2
      K11 == IF p.config = "three-spring" THEN p.k2 + p.k3 ELSE p.k2
  IN  SolveMatrix(Div(R(K00), R(p.m1)), Div(R(K01), R(p.m1)),
                  Div(R(K10), R(p.m2)), Div(R(K11), R(p.m2)))

\* solve, lines 495-503: non-zero, non-parallel eigenvectors
FixPhi(e1, e2) ==
  LET phi1 == IF IsZeroVec(e1) THEN << R(1), R(0) >> ELSE e1
      f2   == IF IsZeroVec(e2) THEN << R(0), R(1) >> ELSE e2
      perp == << Neg(phi1[2]), phi1[1] >>
  IN  [phi1 |-> phi1,
       phi2 |-> IF Parallel(phi1, f2)
                  THEN (IF IsZeroVec(perp) THEN << R(0), R(1) >> ELSE perp)
                  ELSE f2]

\* solve, lines 491-503: the two eigenvectors
SolvePhi(E) ==
  FixPhi(Eigenvector(E.a11, E.a12, E.a21, E.a22, E.lam1),
         Eigenvector(E.a11, E.a12, E.a21, E.a22, E.lam2))

Quad(c1, s1, c2, s2) == [c1 |-> c1, s1 |-> s1, c2 |-> c2, s2 |-> s2]

\* solve, lines 519-577: the coefficient blocks and the result
SolveResult(omega1, omega2, phi1, phi2, A1, B1, A2, B2) ==
  LET w1sq == Mul(omega1, omega1)
      w2sq == Mul(omega2, omega2)
      XQ(i) == Quad(Mul(A1, phi1[i]), Mul(B1, phi1[i]), Mul(A2, phi2[i]), Mul(B2, phi2[i]))
      VQ(i) == Quad(Mul(Mul(B1, phi1[i]), omega1), Mul(Mul(Neg(A1), phi1[i]), omega1),
                    Mul(Mul(B2, phi2[i]), omega2), Mul(Mul(Neg(A2), phi2[i]), omega2))
      AQ(i) == Quad(Mul(Mul(Neg(A1), phi1[i]), w1sq), Mul(Mul(Neg(B1), phi1[i]), w1sq),
                    Mul(Mul(Neg(A2), phi2[i]), w2sq), Mul(Mul(Neg(B2), phi2[i]), w2sq))
  IN  [omega1 |-> omega1, omega2 |-> omega2,
       phi1 |-> phi1, phi2 |-> phi2,
       A1 |-> A1, B1 |-> B1, A2 |-> A2, B2 |-> B2,
       coeffs |-> [x1 |-> XQ(1), x2 |-> XQ(2),
                   v1 |-> VQ(1), v2 |-> VQ(2),
                   a1 |-> AQ(1), a2 |-> AQ(2)]]

\* solve, lines 506-507: the mass-weighted norm of an eigenvector
MassNorm(phi, m1, m2) ==
  Add(Mul(Mul(phi[1], phi[1]), m1), Mul(Mul(phi[2], phi[2]), m2))

\* solve, lines 509 and 514: the cosine amplitude of a mode
ProjectA(phi, m1, m2, x10, x20) ==
  Div(Add(Mul(Mul(phi[1], m1), x10), Mul(Mul(phi[2], m2), x20)), MassNorm(phi, m1, m2))

\* solve, lines 510-512 and 515-517: the sine amplitude of a mode
ProjectB(phi, omega, m1, m2, v10, v20) ==
  IF GtPow(omega, Eps12)
    THEN Div(Add(Mul(Mul(phi[1], m1), v10), Mul(Mul(phi[2], m2), v20)),
             Mul(omega, MassNorm(phi, m1, m2)))
    ELSE R(0)

\* solve, lines 505-517: the M-orthogonal projection of the initial conditions
SolveProject(p, omega1, omega2, P) ==
  SolveResult(omega1, omega2, P.phi1, P.phi2,
              ProjectA(P.phi1, R(p.m1), R(p.m2), R(p.x10), R(p.x20)),
              ProjectB(P.phi1, omega1, R(p.m1), R(p.m2), R(p.v10), R(p.v20)),
              ProjectA(P.phi2, R(p.m1), R(p.m2), R(p.x10), R(p.x20)),
              ProjectB(P.phi2, omega2, R(p.m1), R(p.m2), R(p.v10), R(p.v20)))

\* solve, lines 488-503: frequencies and eigenvectors from the eigenvalues
SolveModes(p, E) == SolveProject(p, Sqrt(E.lam1), Sqrt(E.lam2), SolvePhi(E))

\* solve(params)
Solve(p) == SolveModes(p, SolveEigen(p))

\* the closure make(cc1, cs1, cc2, cs2) of a solve result applied to t
Make(r, q, t) == TrigSum(q.c1, q.s1, q.c2, q.s2, r.omega1, r.omega2, t)

\* Physics.valuesAtTime(solveResult, t)
ValuesAtTime(r, t) ==
  [x1 |-> Make(r, r.coeffs.x1, t), x2 |-> Make(r, r.coeffs.x2, t),
   v1 |-> Make(r, r.coeffs.v1, t), v2 |-> Make(r, r.coeffs.v2, t),
   a1 |-> Make(r, r.coeffs.a1, t), a2 |-> Make(r, r.coeffs.a2, t)]

\* ------------------------------------------------------------------------
\* fraction.js
\* ------------------------------------------------------------------------
MaxIter == 200          \* the iteration cap of the mediant loop
DefaultMaxDen == 10000  \* the default of the parameter maxDen
DefaultTolExp == 9      \* the default 1e-9 of the parameter tol

NegInf == [n |-> -1, d |-> 0]

\* Math.round of a finite number: the integer nearest to x, halves rounded up
Round(x) == (2 * x.n + x.d) \div (2 * x.d)

\* Math.floor of a finite number
Floor(x) == x.n \div x.d

\* the object {num, den}
Fraction(num, den) == [num |-> num, den |-> den]

RECURSIVE gcdLoop(_, _)
gcdLoop(a, b) == IF b = 0 THEN a ELSE gcdLoop(b, a % b)

\* gcd(a, b), a and b integers
gcd(a, b) ==
  LET g == gcdLoop(AbsInt(a), AbsInt(b))
  IN  IF g = 0 THEN 1 ELSE g

\* reduceFraction leaving the sign where the arguments have it
reduceFractionUnsigned(num, den) ==
  IF EqR(den, R(0))
    THEN Fraction(IF Le(R(0), num) THEN PosInf ELSE NegInf, R(1))
  ELSE IF EqR(num, R(0)) THEN Fraction(R(0), R(1))
  ELSE LET g == gcd(Round(num), Round(den))
       IN  Fraction(R(Round(num) \div g), R(Round(den) \div g))

\* reduceFraction(num, den), num and den finite numbers
reduceFraction(num, den) ==
  IF EqR(den, R(0))
    THEN Fraction(IF Le(R(0), num) THEN PosInf ELSE NegInf, R(1))
  ELSE IF EqR(num, R(0)) THEN Fraction(R(0), R(1))
  ELSE LET sign   == IF Lt(num, R(0)) # Lt(den, R(0)) THEN -1 ELSE 1
           absNum == AbsInt(Round(num))
           absDen == AbsInt(Round(den))
           g      == gcd(absNum, absDen)
       IN  Fraction(R(sign * (absNum \div g)), R(absDen \div g))

\* a bracketing or best fraction of the mediant search
Pair(n, d) == [n |-> n, d |-> d]

Best(n, d, err) == [n |-> n, d |-> d, err |-> err]

\* err < tol, the tolerance being 10^-tolExp
BelowTol(err, tolExp) == AbsLtPow(err, R(1), tolExp)

\* the variables of the loop of decimalToFraction; done once it has been left
LoopState(lo, hi, best, iter, done) ==
  [lo |-> lo, hi |-> hi, best |-> best, iter |-> iter, done |-> done]

\* one pass of the loop of decimalToFraction, lines 62-83, on |x|
MediantStep(ax, maxDen, tolExp, st) ==
  IF st.iter >= MaxIter \/ st.lo.d + st.hi.d > maxDen THEN [st EXCEPT !.done = TRUE]
  ELSE LET med    == Pair(st.lo.n + st.hi.n, st.lo.d + st.hi.d)
           medVal == Norm(med.n, med.d)
           err    == AbsR(Sub(ax, medVal))
           nbest  == IF Lt(err, st.best.err) THEN Best(med.n, med.d, err) ELSE st.best
       IN  IF BelowTol(err, tolExp) THEN LoopState(st.lo, st.hi, nbest, st.iter, TRUE)
           ELSE IF Lt(medVal, ax) THEN LoopState(med, st.hi, nbest, st.iter + 1, FALSE)
           ELSE LoopState(st.lo, med, nbest, st.iter + 1, FALSE)

\* the loop, run until it is left
RECURSIVE MediantSearch(_, _, _, _)
MediantSearch(ax, maxDen, tolExp, st) ==
  IF st.done THEN st
  ELSE MediantSearch(ax, maxDen, tolExp, MediantStep(ax, maxDen, tolExp, st))

\* lines 50-51: the inputs decimalToFraction returns on without searching
ReturnsEarly(x, tolExp) == ~IsFinite(x) \/ BelowTol(x, tolExp)

EarlyFraction(x) ==
  IF ~IsFinite(x)
    THEN Fraction(IF Lt(R(0), x) THEN PosInf ELSE NegInf, R(1))
    ELSE Fraction(R(0), R(1))

\* lines 57-60: the bracket 0/1, 1/0 and the nearest integer as the first best
SearchStart(ax) ==
  LoopState(Pair(0, 1), Pair(1, 0), Best(Round(ax), 1, AbsR(Sub(ax, R(Round(ax))))), 0, FALSE)

\* SearchResult handing the best fraction of |x| back without the sign of x
SearchResultAbs(x, st) == reduceFraction(R(st.best.n), R(st.best.d))

\* line 85: reduceFraction(sign * best_n, best_d)
SearchResult(x, st) ==
  reduceFraction(R((IF Lt(x, R(0)) THEN -1 ELSE 1) * st.best.n), R(st.best.d))

\* decimalToFraction(x, maxDen, tol), tol = 10^-tolExp
decimalToFraction(x, maxDen, tolExp) ==
  IF ReturnsEarly(x, tolExp) THEN EarlyFraction(x)
  ELSE SearchResult(x, MediantSearch(AbsR(x), maxDen, tolExp, SearchStart(AbsR(x))))

\* a piece of LaTeX: its sign character and what follows it
Latex(sign, body) == [sign |-> sign, body |-> body]

\* `${n}` of a number that is an integer
NumText(x) == ToString(x.n)

\* fracToLatex writing the magnitude 1 whether or not skipOne is set
fracToLatexKeepOne(num, den, showPlus, skipOne) ==
  IF EqR(den, R(0)) \/ ~IsFinite(Div(num, den)) THEN Latex("", "\\infty")
  ELSE IF EqR(num, R(0)) THEN Latex("", "0")
  ELSE LET sign   == IF Lt(num, R(0)) THEN "-" ELSE IF showPlus THEN "+" ELSE ""
           absNum == AbsR(num)
           absDen == AbsR(den)
       IN  IF EqR(absDen, R(1))
             THEN Latex(sign, NumText(absNum))
             ELSE Latex(sign, "\\frac{" \o NumText(absNum) \o "}{" \o NumText(absDen) \o "}")

\* fracToLatex(num, den, {showPlus, skipOne})
fracToLatex(num, den, showPlus, skipOne) ==
  IF EqR(den, R(0)) \/ ~IsFinite(Div(num, den)) THEN Latex("", "\\infty")
  ELSE IF EqR(num, R(0)) THEN Latex("", "0")
  ELSE LET sign   == IF Lt(num, R(0)) THEN "-" ELSE IF showPlus THEN "+" ELSE ""
           absNum == AbsR(num)
           absDen == AbsR(den)
       IN  IF EqR(absDen, R(1))
             THEN Latex(sign, IF EqR(absNum, R(1)) /\ skipOne THEN "" ELSE NumText(absNum))
             ELSE Latex(sign, "\\frac{" \o NumText(absNum) \o "}{" \o NumText(absDen) \o "}")

\* decimalToLatex(x, {maxDen, showPlus, skipOne})
decimalToLatex(x, maxDen, showPlus, skipOne) ==
  LET f == decimalToFraction(x, maxDen, DefaultTolExp)
  IN  fracToLatex(f.num, f.den, showPlus, skipOne)

\* ------------------------------------------------------------------------
\* State
\* ------------------------------------------------------------------------
VARIABLES
  params,   \* the configuration handed to the constructor / to Physics.solve
  thrown,   \* the error raised by the last construction: "none" when it returned
  osc,      \* the CoupledOscillator instance (its fields), None before construction
  sol,      \* the result of Physics.solve, None before the call
  ret,      \* the last value returned by an evaluation call
  ft,       \* the activation record of firstTimeTo
  fcall,    \* the last call of a fraction or formatter function: its
            \* arguments and what it returned, None before any call
  ui        \* the page of app.js: its module state, its buttons and overlay,
            \* and the timers of its requests; None where no page is open

vars == << params, thrown, osc, sol, ret, ft, fcall, ui >>

None == [none |-> TRUE]

Idle == [pc |-> "idle"]

Masses == 1 .. MaxMass

\* masses as a caller may pass them: non-positive ones included
AnyMasses == (-1) .. MaxMass

Springs == 0 .. MaxK

Displacements == {-1, 0, 1}

Velocities == {-1, 0, 1}

Topologies == {"three-spring", "two-spring"}

EvalStep == 3   \* evaluation times are multiples of EvalStep ticks

EvalTimes == {i * EvalStep : i \in 0 .. MaxEvalTime}

\* the topology, masses and spring constants of a configuration
SystemSpace ==
  [config : Topologies, m1 : Masses, m2 : Masses,
   k1 : Springs, k2 : Springs, k3 : Springs]

\* the initial conditions of a configuration
InitialSpace ==
  [x10 : Displacements, x20 : Displacements,
   v10 : Velocities, v20 : Velocities]

\* configurations with any mass, over a smaller range of springs and
\* initial conditions
AnySystemSpace ==
  [config : Topologies, m1 : AnyMasses, m2 : AnyMasses,
   k1 : 0 .. MaxKAny, k2 : 0 .. MaxKAny, k3 : 0 .. MaxKAny]

AnyInitialSpace == [x10 : {0, 1}, x20 : {0, 1}, v10 : {0, 1}, v20 : {0, 1}]

WithInitial(c, ic) ==
  [config |-> c.config, m1 |-> c.m1, m2 |-> c.m2,
   k1 |-> c.k1, k2 |-> c.k2, k3 |-> c.k3,
   x10 |-> ic.x10, x20 |-> ic.x20, v10 |-> ic.v10, v20 |-> ic.v20]

\* every Math.sqrt of _compute and of solve is taken of a perfect square
ExactParams(p) ==
  LET L == Lambdas(p)
      E == SolveEigen(p)
  IN  /\ ExactRoot(L.rad)
      /\ ExactRoot(Max0(L.lam1))
      /\ ExactRoot(Max0(L.lam2))
      /\ p.k2 = 0 => /\ ExactRoot(Max0(Div(R(p.k1), R(p.m1))))
                     /\ ExactRoot(Max0(Div(R(p.k3), R(p.m2))))
      /\ ExactRoot(E.rad)
      /\ ExactRoot(E.lam1)
      /\ ExactRoot(E.lam2)

Init ==
  /\ \E c \in {s \in SystemSpace : ExactParams(s)} :
        \E ic \in InitialSpace : params = WithInitial(c, ic)
  /\ thrown = "none"
  /\ osc = None
  /\ sol = None
  /\ ret = None
  /\ ft = Idle
  /\ fcall = None
  /\ ui = None

\* as Init, the masses not restricted to positive ones
InitAnyMass ==
  /\ \E c \in {s \in AnySystemSpace : ExactParams(s)} :
        \E ic \in AnyInitialSpace : params = WithInitial(c, ic)
  /\ thrown = "none"
  /\ osc = None
  /\ sol = None
  /\ ret = None
  /\ ft = Idle
  /\ fcall = None
  /\ ui = None

\* the fields of an instance: the stored parameters and the derived fields d
Instance(p, d) ==
  [m1 |-> p.m1, m2 |-> p.m2, k1 |-> p.k1, k2 |-> p.k2, k3 |-> p.k3,
   x10 |-> p.x10, x20 |-> p.x20, v10 |-> p.v10, v20 |-> p.v20,
   branch |-> d.branch, omega1 |-> d.omega1, omega2 |-> d.omega2,
   r1 |-> d.r1, r2 |-> d.r2, A1 |-> d.A1, A2 |-> d.A2, B1 |-> d.B1, B2 |-> d.B2,
   coeffs1 |-> d.coeffs1, coeffs2 |-> d.coeffs2]

\* new CoupledOscillator(params): the constructor stores the parameters and
\* runs _compute; nothing in either raises
Construct ==
  /\ osc = None
  /\ sol = None
  /\ osc' = Instance(params, Compute(params))
  /\ thrown' = "none"
  /\ UNCHANGED << params, sol, ret, ft, fcall, ui >>

\* Physics.solve(params)
SolveCall ==
  /\ osc = None
  /\ sol = None
  /\ sol' = Solve(params)
  /\ thrown' = "none"
  /\ UNCHANGED << params, osc, ret, ft, fcall, ui >>

Returned(op, mass, t, value) == [op |-> op, mass |-> mass, t |-> t, value |-> value]

\* PositionCall keeping the value it computed in the field A1 of the instance
PositionCallStoring(mass, t) ==
  /\ osc # None
  /\ ft.pc = "idle"
  /\ ret = None
  /\ ret' = Returned("position", mass, t, Position(osc, mass, t))
  /\ osc' = [osc EXCEPT !.A1 = Position(osc, mass, t)]
  /\ UNCHANGED << params, thrown, sol, ft, fcall, ui >>

PositionCall(mass, t) ==
  /\ osc # None
  /\ ft.pc = "idle"
  /\ ret = None
  /\ ret' = Returned("position", mass, t, Position(osc, mass, t))
  /\ UNCHANGED << params, thrown, osc, sol, ft, fcall, ui >>

VelocityCall(mass, t) ==
  /\ osc # None
  /\ ft.pc = "idle"
  /\ ret = None
  /\ ret' = Returned("velocity", mass, t, Velocity(osc, mass, t))
  /\ UNCHANGED << params, thrown, osc, sol, ft, fcall, ui >>

AccelerationCall(mass, t) ==
  /\ osc # None
  /\ ft.pc = "idle"
  /\ ret = None
  /\ ret' = Returned("acceleration", mass, t, Acceleration(osc, mass, t))
  /\ UNCHANGED << params, thrown, osc, sol, ft, fcall, ui >>

ValueAtTimeCall(t) ==
  /\ osc # None
  /\ ft.pc = "idle"
  /\ ret = None
  /\ ret' = Returned("valueAtTime", 0, t, ValueAtTime(osc, t))
  /\ UNCHANGED << params, thrown, osc, sol, ft, fcall, ui >>

\* generateLatex(osc): the term lists of both masses
GenerateLatexCall ==
  /\ osc # None
  /\ ft.pc = "idle"
  /\ ret = None
  /\ ret' = Returned("generateLatex", 0, 0,
                     [sol1 |-> MassSolution(osc.coeffs1, osc.omega1, osc.omega2),
                      sol2 |-> MassSolution(osc.coeffs2, osc.omega1, osc.omega2)])
  /\ UNCHANGED << params, thrown, osc, sol, ft, fcall, ui >>

\* Physics.valuesAtTime(solveResult, t)
ValuesAtTimeCall(t) ==
  /\ sol # None
  /\ ret = None
  /\ ret' = Returned("valuesAtTime", 0, t, ValuesAtTime(sol, t))
  /\ UNCHANGED << params, thrown, osc, sol, ft, fcall, ui >>

\* the caller takes the value the last call returned
TakeResult ==
  /\ ret # None
  /\ ret' = None
  /\ UNCHANGED << params, thrown, osc, sol, ft, fcall, ui >>

Next ==
  \/ Construct
  \/ SolveCall
  \/ \E mass \in {1, 2}, t \in EvalTimes : PositionCall(mass, t)
  \/ \E mass \in {1, 2}, t \in EvalTimes : VelocityCall(mass, t)
  \/ \E mass \in {1, 2}, t \in EvalTimes : AccelerationCall(mass, t)
  \/ \E t \in EvalTimes : ValueAtTimeCall(t)
  \/ GenerateLatexCall
  \/ \E t \in EvalTimes : ValuesAtTimeCall(t)
  \/ TakeResult

Spec == Init /\ [][Next]_vars

SpecAnyMass == InitAnyMass /\ [][Next]_vars

\* ------------------------------------------------------------------------
\* CoupledOscillator.firstTimeTo, one step per loop test and loop body
\* ------------------------------------------------------------------------
MaxBisect == 60   \* the iteration cap of the bisection loop

Null == [null |-> TRUE]

Time(t) == [t |-> t]

\* the function fn selected by quantity, minus target
FnMinusTarget(o, mass, quantity, target, t) ==
  Sub(IF quantity = "x" THEN Position(o, mass, t)
      ELSE IF quantity = "v" THEN Velocity(o, mass, t)
      ELSE Acceleration(o, mass, t),
      target)

\* Math.abs(f) < tolerance
WithinTolerance(f, tolerance) == Lt(AbsR(f), tolerance)

MinInt(x, y) == IF x <= y THEN x ELSE y

\* the call: lines 194-213, up to the initialisation of the scan loop
FirstTimeToCall(mass, quantity, target, tMin, tMax, dt, tolerance) ==
  /\ osc # None
  /\ ft.pc = "idle"
  /\ ret = None
  /\ LET prevF == FnMinusTarget(osc, mass, quantity, target, tMin)
         hit   == WithinTolerance(prevF, tolerance)
     IN  ft' = [pc |-> IF hit THEN "done" ELSE "test",
                mass |-> mass, quantity |-> quantity, target |-> target,
                tMin |-> tMin, tMax |-> tMax, dt |-> dt, tolerance |-> tolerance,
                prevT |-> tMin, prevF |-> prevF,
                t |-> IF hit THEN tMin ELSE tMin + dt,
                lo |-> 0, hi |-> 0, i |-> 0,
                result |-> IF hit THEN Time(tMin) ELSE Null]
  /\ UNCHANGED << params, thrown, osc, sol, ret, fcall, ui >>

\* ScanTest returning the end of the window when the loop runs out
ScanTestEnd ==
  /\ ft.pc = "test"
  /\ ft' = IF 2 * ft.t <= 2 * ft.tMax + ft.dt
             THEN [ft EXCEPT !.pc = "body"]
             ELSE [ft EXCEPT !.pc = "done", !.result = Time(ft.tMax)]
  /\ UNCHANGED << params, thrown, osc, sol, ret, fcall, ui >>

\* the loop condition t <= tMax + dt * 0.5; on exit, return null
ScanTest ==
  /\ ft.pc = "test"
  /\ ft' = IF 2 * ft.t <= 2 * ft.tMax + ft.dt
             THEN [ft EXCEPT !.pc = "body"]
             ELSE [ft EXCEPT !.pc = "done", !.result = Null]
  /\ UNCHANGED << params, thrown, osc, sol, ret, fcall, ui >>

\* ScanBody without the test of the sample against the tolerance
ScanBodyNoHit ==
  /\ ft.pc = "body"
  /\ LET curT == MinInt(ft.t, ft.tMax)
         curF == FnMinusTarget(osc, ft.mass, ft.quantity, ft.target, curT)
     IN  ft' = IF Lt(Mul(ft.prevF, curF), R(0))
                 THEN [ft EXCEPT !.pc = "bisect", !.lo = ft.prevT, !.hi = curT, !.i = 0]
               ELSE IF curT >= ft.tMax
                 THEN [ft EXCEPT !.pc = "done", !.result = Null,
                                 !.prevT = curT, !.prevF = curF]
               ELSE [ft EXCEPT !.pc = "test", !.t = ft.t + ft.dt,
                               !.prevT = curT, !.prevF = curF]
  /\ UNCHANGED << params, thrown, osc, sol, ret, fcall, ui >>

\* the loop body, lines 216-236, and the increment t += dt
ScanBody ==
  /\ ft.pc = "body"
  /\ LET curT == MinInt(ft.t, ft.tMax)
         curF == FnMinusTarget(osc, ft.mass, ft.quantity, ft.target, curT)
     IN  ft' = IF WithinTolerance(curF, ft.tolerance)
                 THEN [ft EXCEPT !.pc = "done", !.result = Time(curT)]
               ELSE IF Lt(Mul(ft.prevF, curF), R(0))
                 THEN [ft EXCEPT !.pc = "bisect", !.lo = ft.prevT, !.hi = curT, !.i = 0]
               ELSE IF curT >= ft.tMax
                 THEN [ft EXCEPT !.pc = "done", !.result = Null,
                                 !.prevT = curT, !.prevF = curF]
               ELSE [ft EXCEPT !.pc = "test", !.t = ft.t + ft.dt,
                               !.prevT = curT, !.prevF = curF]
  /\ UNCHANGED << params, thrown, osc, sol, ret, fcall, ui >>

\* (lo + hi) / 2 on times, rounded down to a representable time
Midpoint(lo, hi) == (lo + hi) \div 2

\* BisectStep moving the wrong end of the bracket to the midpoint
BisectStepSwapped ==
  /\ ft.pc = "bisect"
  /\ LET mid == Midpoint(ft.lo, ft.hi)
         mf  == FnMinusTarget(osc, ft.mass, ft.quantity, ft.target, mid)
     IN  ft' = IF ft.i >= MaxBisect
                 THEN [ft EXCEPT !.pc = "done", !.result = Time(mid)]
               ELSE IF WithinTolerance(mf, ft.tolerance)
                 THEN [ft EXCEPT !.pc = "done", !.result = Time(mid)]
               ELSE IF Le(Mul(ft.prevF, mf), R(0))
                 THEN [ft EXCEPT !.lo = mid, !.prevF = mf, !.i = ft.i + 1]
               ELSE [ft EXCEPT !.hi = mid, !.i = ft.i + 1]
  /\ UNCHANGED << params, thrown, osc, sol, ret, fcall, ui >>

\* one iteration of the bisection loop, lines 224-230, or its exit, line 231
BisectStep ==
  /\ ft.pc = "bisect"
  /\ LET mid == Midpoint(ft.lo, ft.hi)
         mf  == FnMinusTarget(osc, ft.mass, ft.quantity, ft.target, mid)
     IN  ft' = IF ft.i >= MaxBisect
                 THEN [ft EXCEPT !.pc = "done", !.result = Time(mid)]
               ELSE IF WithinTolerance(mf, ft.tolerance)
                 THEN [ft EXCEPT !.pc = "done", !.result = Time(mid)]
               ELSE IF Le(Mul(ft.prevF, mf), R(0))
                 THEN [ft EXCEPT !.hi = mid, !.i = ft.i + 1]
               ELSE [ft EXCEPT !.lo = mid, !.prevF = mf, !.i = ft.i + 1]
  /\ UNCHANGED << params, thrown, osc, sol, ret, fcall, ui >>

\* the return to the caller
FirstTimeToReturn ==
  /\ ft.pc = "done"
  /\ ret' = Returned("firstTimeTo", ft.mass, 0, ft.result)
  /\ ft' = Idle
  /\ UNCHANGED << params, thrown, osc, sol, fcall, ui >>

\* the inputs of the root-finder runs
MaxWindow == 26         \* the longest search window, in ticks
MaxTargetHalves == 2    \* targets range over 0, 1/2, .. MaxTargetHalves/2

RootSystems ==
  {s \in SystemSpace : /\ ExactParams(s)
                       /\ s.config = "three-spring"
                       /\ s.m1 = 1 /\ s.m2 = 1
                       /\ s.k1 = 1 /\ s.k3 = 1
                       /\ s.k2 \in {0, 4}}

RootInitials ==
  {ic \in InitialSpace : /\ ic.x10 = 1
                         /\ ic.v10 = 0
                         /\ << ic.x20, ic.v20 >> \in {<< 1, 0 >>, << -1, 0 >>, << 0, 1 >>}}

Targets == {Norm(i, 2) : i \in 0 .. MaxTargetHalves}

TMins == {0, 3, MaxWindow + 4}

TMaxs == {10, MaxWindow}

Dts == {0, 1, 5}

Tolerances == {Norm(1, 100), Norm(1, 4)}

InitRoot ==
  /\ \E c \in RootSystems : \E ic \in RootInitials : params = WithInitial(c, ic)
  /\ thrown = "none"
  /\ osc = None
  /\ sol = None
  /\ ret = None
  /\ ft = Idle
  /\ fcall = None
  /\ ui = None

NextRoot ==
  \/ Construct
  \/ \E mass \in {1, 2}, quantity \in {"x", "v", "a"}, target \in Targets,
        tMin \in TMins, tMax \in TMaxs, dt \in Dts, tolerance \in Tolerances :
          FirstTimeToCall(mass, quantity, target, tMin, tMax, dt, tolerance)
  \/ ScanTest
  \/ ScanBody
  \/ BisectStep
  \/ FirstTimeToReturn
  \/ TakeResult

RootSpec == InitRoot /\ [][NextRoot]_vars

\* evaluation calls and root-finder runs on one instance, in any order
NextEval ==
  \/ NextRoot
  \/ \E mass \in {1, 2}, t \in EvalTimes : PositionCall(mass, t)
  \/ \E mass \in {1, 2}, t \in EvalTimes : VelocityCall(mass, t)
  \/ \E mass \in {1, 2}, t \in EvalTimes : AccelerationCall(mass, t)
  \/ \E t \in EvalTimes : ValueAtTimeCall(t)

EvalSpec == InitRoot /\ [][NextEval]_vars

\* ------------------------------------------------------------------------
\* fractions.js (window.Fractions)
\* ------------------------------------------------------------------------
FractionsMaxIter == 10000   \* the iteration cap of the loop of toFraction

\* the object {n, d}
Frac(n, d) == [n |-> n, d |-> d]

\* Fractions.gcd(a, b), a and b integers
Fractions_gcd(a, b) == gcdLoop(AbsInt(a), AbsInt(b))

\* Fractions.reduce(frac), n and d integers
Fractions_reduce(frac) ==
  IF frac.d = 0 THEN Frac(frac.n, 0)
  ELSE LET g  == Fractions_gcd(AbsInt(frac.n), AbsInt(frac.d))
           rn == frac.n \div g
           rd == frac.d \div g
       IN  IF rd < 0 THEN Frac(-rn, -rd) ELSE Frac(rn, rd)

\* the loop of toFraction, lines 64-86, from iteration iter on
RECURSIVE ToFractionLoop(_, _, _, _, _, _)
ToFractionLoop(ax, maxDen, lo, hi, best, iter) ==
  IF iter >= FractionsMaxIter \/ lo.d + hi.d > maxDen THEN best
  ELSE LET med   == Pair(lo.n + hi.n, lo.d + hi.d)
           val   == Norm(med.n, med.d)
           err   == AbsR(Sub(ax, val))
           nbest == IF Lt(err, best.err) THEN Best(med.n, med.d, err) ELSE best
       IN  IF Lt(val, ax) THEN ToFractionLoop(ax, maxDen, med, hi, nbest, iter + 1)
           ELSE IF Lt(ax, val) THEN ToFractionLoop(ax, maxDen, lo, med, nbest, iter + 1)
           ELSE nbest

\* lines 50-62: the bracket floor(ax), floor(ax) + 1 and the better of its ends
ToFractionStart(ax, intPart) ==
  LET errLo == AbsR(Sub(ax, R(intPart)))
      errHi == AbsR(Sub(ax, R(intPart + 1)))
  IN  IF Lt(errHi, errLo) THEN Best(intPart + 1, 1, errHi) ELSE Best(intPart, 1, errLo)

\* Fractions.toFraction(x, maxDen); no number of the model exceeds 1e10
Fractions_toFraction(x, maxDen) ==
  IF EqR(x, R(0)) THEN Frac(0, 1)
  ELSE IF ~IsFinite(x) THEN Null
  ELSE LET negative == Lt(x, R(0))
           ax       == AbsR(x)
           intPart  == Floor(ax)
           best     == ToFractionLoop(ax, maxDen, Pair(intPart, 1), Pair(intPart + 1, 1),
                                      ToFractionStart(ax, intPart), 0)
       IN  IF ax.d = 1
             THEN Frac(IF negative THEN -Round(ax) ELSE Round(ax), 1)
             ELSE Fractions_reduce(Frac(IF negative THEN -best.n ELSE best.n, best.d))

\* Fractions.fracToLatex(frac); '' + n of a negative n is its minus sign and
\* its magnitude
Fractions_fracToLatex(frac) ==
  IF frac.d = 1
    THEN Latex(IF frac.n < 0 THEN "-" ELSE "", ToString(AbsInt(frac.n)))
  ELSE IF frac.n < 0
    THEN Latex("-", "\\frac{" \o ToString(-frac.n) \o "}{" \o ToString(frac.d) \o "}")
  ELSE Latex("", "\\frac{" \o ToString(frac.n) \o "}{" \o ToString(frac.d) \o "}")

\* Math.abs(x).toFixed(4) of the numbers toFraction returns null for
ToFixed4(x) == IF IsNaN(x) THEN "NaN" ELSE "Infinity"

\* Fractions.coeffToLatex(x, maxDen, forceSign)
Fractions_coeffToLatex(x, maxDen, forceSign) ==
  LET frac == Fractions_toFraction(x, maxDen)
  IN  IF AbsLtPow(x, R(1), Eps12) THEN Latex("", "0")
      ELSE IF frac = Null
        THEN Latex(IF Lt(R(0), x) THEN (IF forceSign THEN "+" ELSE "") ELSE "-", ToFixed4(x))
      ELSE IF frac.n = 0 THEN Latex("", "0")
      ELSE LET sign == IF frac.n > 0 THEN (IF forceSign THEN "+" ELSE "") ELSE "-"
           IN  IF frac.d = 1 THEN Latex(sign, ToString(AbsInt(frac.n)))
               ELSE Latex(sign, "\\frac{" \o ToString(AbsInt(frac.n)) \o "}{"
                                \o ToString(frac.d) \o "}")

\* ------------------------------------------------------------------------
\* latex.js: coeffLatex and buildExpression
\* ------------------------------------------------------------------------
\* coeffLatex(value, isFirst, skipOne)
coeffLatex(value, isFirst, skipOne) ==
  LET f == decimalToFraction(value, DefaultMaxDen, DefaultTolExp)
  IN  IF EqR(f.num, R(0)) THEN [latex |-> Latex("", ""), isZero |-> TRUE]
      ELSE [latex |-> fracToLatex(f.num, f.den, ~isFirst, skipOne), isZero |-> FALSE]

\* `${trigFn}\!\left(${omegaLabel}\, t\right)`
TrigText(term) ==
  "\\" \o term.trigFn \o "\\!\\left(\\omega_" \o ToString(term.omegaLabel) \o "\\, t\\right)"

\* an element of parts: sign, magnitude and trig factor of a written term
Part(sign, body, trig) == [sign |-> sign, body |-> body, trig |-> trig]

PartText(part) == part.sign \o part.body \o part.trig

\* WrittenPart asking for a plus sign whether or not a term was written before
WrittenPartPlus(term, firstWritten) ==
  LET cLat     == coeffLatex(term.coeff, FALSE, TRUE).latex
      f        == decimalToFraction(term.coeff, DefaultMaxDen, DefaultTolExp)
      magIsOne == EqR(AbsR(f.num), AbsR(f.den))
  IN  IF magIsOne /\ ~EqR(f.num, R(0))
        THEN Part(IF Lt(term.coeff, R(0)) THEN "-" ELSE "+", "", TrigText(term))
        ELSE Part(cLat.sign, cLat.body, TrigText(term))

\* the body of the loop of buildExpression for a term that is written
WrittenPart(term, firstWritten) ==
  LET cLat     == coeffLatex(term.coeff, ~firstWritten, TRUE).latex
      f        == decimalToFraction(term.coeff, DefaultMaxDen, DefaultTolExp)
      magIsOne == EqR(AbsR(f.num), AbsR(f.den))
  IN  IF magIsOne /\ ~EqR(f.num, R(0))
        THEN Part(IF Lt(term.coeff, R(0)) THEN "-" ELSE IF ~firstWritten THEN "" ELSE "+",
                  "", TrigText(term))
        ELSE Part(cLat.sign, cLat.body, TrigText(term))

\* the loop of buildExpression from term i on
RECURSIVE BuildParts(_, _, _, _)
BuildParts(terms, i, firstWritten, parts) ==
  IF i > Len(terms) THEN parts
  ELSE IF coeffLatex(terms[i].coeff, ~firstWritten, TRUE).isZero
    THEN BuildParts(terms, i + 1, firstWritten, parts)
  ELSE BuildParts(terms, i + 1, TRUE, Append(parts, WrittenPart(terms[i], firstWritten)))

\* parts.join(' ')
RECURSIVE Join(_)
Join(parts) ==
  IF Len(parts) = 1 THEN PartText(parts[1])
  ELSE PartText(parts[1]) \o " " \o Join(Tail(parts))

\* the value of buildExpression: the string, and the parts it was joined from
Expression(parts) ==
  [parts |-> parts, text |-> IF Len(parts) > 0 THEN Join(parts) ELSE "0"]

\* buildExpression(terms)
buildExpression(terms) == Expression(BuildParts(terms, 1, FALSE, << >>))

\* generateLatex(osc) of latex.js: the six expressions of its value; the
\* function declares the parameter osc alone, so that any further argument of
\* a call is dropped
generateLatex(o) ==
  LET sol1 == MassSolution(o.coeffs1, o.omega1, o.omega2)
      sol2 == MassSolution(o.coeffs2, o.omega1, o.omega2)
  IN  [x1 |-> buildExpression(sol1.x), v1 |-> buildExpression(sol1.v),
       a1 |-> buildExpression(sol1.a), x2 |-> buildExpression(sol2.x),
       v2 |-> buildExpression(sol2.v), a2 |-> buildExpression(sol2.a)]

\* ------------------------------------------------------------------------
\* Physics.generateLatex: buildExpr
\* ------------------------------------------------------------------------
\* trigs[i]
Trigs(i) ==
  IF i = 1 THEN "\\cos(\\omega_1 t)" ELSE IF i = 2 THEN "\\sin(\\omega_1 t)"
  ELSE IF i = 3 THEN "\\cos(\\omega_2 t)" ELSE "\\sin(\\omega_2 t)"

\* coeffStr of a written term; no coefficient of the model makes toFraction
\* return null
CoeffStr(frac) ==
  IF frac.n = 1 /\ frac.d = 1 THEN ""
  ELSE IF frac.d = 1 THEN ToString(frac.n)
  ELSE "\\frac{" \o ToString(frac.n) \o "}{" \o ToString(frac.d) \o "}"

\* the loop of buildExpr from vals[i] on; first is kept as the emptiness of parts
RECURSIVE BuildExprLoop(_, _, _, _)
BuildExprLoop(vals, maxDen, i, parts) ==
  IF i > Len(vals) THEN parts
  ELSE IF AbsLtPow(vals[i], R(1), Eps12)
    THEN BuildExprLoop(vals, maxDen, i + 1, parts)
  ELSE LET isNeg == Lt(vals[i], R(0))
           sign  == IF parts = << >> THEN (IF isNeg THEN "-" ELSE "")
                    ELSE (IF isNeg THEN " - " ELSE " + ")
       IN  BuildExprLoop(vals, maxDen, i + 1,
             Append(parts, Part(sign, CoeffStr(Fractions_toFraction(AbsR(vals[i]), maxDen)),
                                Trigs(i))))

RECURSIVE Concat(_)
Concat(parts) ==
  IF parts = << >> THEN "" ELSE PartText(parts[1]) \o Concat(Tail(parts))

\* buildExpr(varName, c) with the maxDen of generateLatex
buildExpr(varName, c, maxDen) ==
  LET parts == BuildExprLoop(<< c.c1, c.s1, c.c2, c.s2 >>, maxDen, 1, << >>)
  IN  [parts |-> parts,
       text  |-> varName \o "(t) = " \o (IF parts = << >> THEN "0" ELSE Concat(parts))]

\* ------------------------------------------------------------------------
\* Calls of the fraction and formatter functions
\* ------------------------------------------------------------------------
MaxNumer == 7      \* numbers p/q passed in have |p| <= MaxNumer
MaxDenom == 3      \* and 1 <= q <= MaxDenom
MaxDenArg == 3     \* the bounds maxDen passed in are 1..MaxDenArg and the defaults
MaxInt == 6        \* the integers passed to reduceFraction and reduce
UiMaxDen == 100    \* the bound maxDen the page passes when the field is left alone

\* a number whose integer part takes the loop of decimalToFraction to its cap
Large == Norm(2 * MaxIter - 1, 2)

Finites == {Norm(p, q) : p \in (-MaxNumer) .. MaxNumer, q \in 1 .. MaxDenom}

NonFinites == {PosInf, NegInf, NaN}

Numbers == Finites \cup NonFinites

\* the numbers handed to the approximators
Approximated == Numbers \cup {Large, Neg(Large)}

MaxDens == (1 .. MaxDenArg) \cup {DefaultMaxDen}

TolExps == {1, DefaultTolExp}

Ints == (-MaxInt) .. MaxInt

\* a coefficient below the tolerance 1e-9 of decimalToFraction
Tiny == Norm(1, 2000000000)

\* the coefficients handed to buildExpression
Coefficients == {R(-1), Norm(-1, 2), R(0), Tiny, R(1), Norm(3, 2)}

\* the coefficients handed to buildExpr
SolveCoefficients == {R(-1), Norm(-1, 2), R(0), Norm(1, 2), R(1), Norm(3, 2)}

ReduceFractionCall(num, den) ==
  /\ fcall = None
  /\ fcall' = [fn |-> "reduceFraction", pc |-> "done", num |-> num, den |-> den,
               result |-> reduceFraction(R(num), R(den))]
  /\ UNCHANGED << params, thrown, osc, sol, ret, ft, ui >>

ReduceCall(n, d) ==
  /\ fcall = None
  /\ fcall' = [fn |-> "reduce", pc |-> "done", n |-> n, d |-> d, result |-> Fractions_reduce(Frac(n, d))]
  /\ UNCHANGED << params, thrown, osc, sol, ret, ft, ui >>

\* decimalToFraction(x, maxDen, tol) up to its loop
DecimalToFractionCall(x, maxDen, tolExp) ==
  /\ fcall = None
  /\ fcall' = [fn |-> "decimalToFraction", x |-> x, maxDen |-> maxDen, tolExp |-> tolExp,
               pc |-> IF ReturnsEarly(x, tolExp) THEN "done" ELSE "loop",
               st |-> IF ReturnsEarly(x, tolExp) THEN None ELSE SearchStart(AbsR(x)),
               result |-> IF ReturnsEarly(x, tolExp) THEN EarlyFraction(x) ELSE None]
  /\ UNCHANGED << params, thrown, osc, sol, ret, ft, ui >>

\* one pass of the loop of the running decimalToFraction, or its return
DecimalToFractionStep ==
  /\ fcall # None
  /\ fcall.fn = "decimalToFraction"
  /\ fcall.pc = "loop"
  /\ LET st == MediantStep(AbsR(fcall.x), fcall.maxDen, fcall.tolExp, fcall.st)
     IN  fcall' = IF st.done
                    THEN [fcall EXCEPT !.pc = "done", !.st = st,
                                       !.result = SearchResult(fcall.x, st)]
                    ELSE [fcall EXCEPT !.st = st]
  /\ UNCHANGED << params, thrown, osc, sol, ret, ft, ui >>

ToFractionCall(x, maxDen) ==
  /\ fcall = None
  /\ fcall' = [fn |-> "toFraction", pc |-> "done", x |-> x, maxDen |-> maxDen,
               result |-> Fractions_toFraction(x, maxDen)]
  /\ UNCHANGED << params, thrown, osc, sol, ret, ft, ui >>

DecimalToLatexCall(x, showPlus, skipOne) ==
  /\ fcall = None
  /\ fcall' = [fn |-> "decimalToLatex", pc |-> "done", x |-> x, showPlus |-> showPlus, skipOne |-> skipOne,
               result |-> decimalToLatex(x, DefaultMaxDen, showPlus, skipOne)]
  /\ UNCHANGED << params, thrown, osc, sol, ret, ft, ui >>

CoeffToLatexCall(x, maxDen, forceSign) ==
  /\ fcall = None
  /\ fcall' = [fn |-> "coeffToLatex", pc |-> "done", x |-> x, maxDen |-> maxDen, forceSign |-> forceSign,
               result |-> Fractions_coeffToLatex(x, maxDen, forceSign)]
  /\ UNCHANGED << params, thrown, osc, sol, ret, ft, ui >>

\* buildExpression on the position terms of the coefficients c
BuildExpressionCall(c) ==
  /\ fcall = None
  /\ fcall' = [fn |-> "buildExpression", pc |-> "done", terms |-> PosParts(c),
               result |-> buildExpression(PosParts(c))]
  /\ UNCHANGED << params, thrown, osc, sol, ret, ft, ui >>

\* buildExpr('x_1', c) of Physics.generateLatex(solveResult, maxDen)
BuildExprCall(c, maxDen) ==
  /\ fcall = None
  /\ fcall' = [fn |-> "buildExpr", pc |-> "done", c |-> c, maxDen |-> maxDen,
               result |-> buildExpr("x_1", c, maxDen)]
  /\ UNCHANGED << params, thrown, osc, sol, ret, ft, ui >>

\* fracToLatex(num, den, {showPlus, skipOne}) on two integers
FracToLatexCall(num, den, showPlus, skipOne) ==
  /\ fcall = None
  /\ fcall' = [fn |-> "fracToLatex", pc |-> "done", num |-> num, den |-> den,
               showPlus |-> showPlus, skipOne |-> skipOne,
               result |-> fracToLatex(R(num), R(den), showPlus, skipOne)]
  /\ UNCHANGED << params, thrown, osc, sol, ret, ft, ui >>

\* Fractions.fracToLatex({n, d})
FractionsFracToLatexCall(n, d) ==
  /\ fcall = None
  /\ fcall' = [fn |-> "Fractions.fracToLatex", pc |-> "done", n |-> n, d |-> d,
               result |-> Fractions_fracToLatex(Frac(n, d))]
  /\ UNCHANGED << params, thrown, osc, sol, ret, ft, ui >>

\* the oscillators whose formulas are written: one cosine and one sine
\* coefficient for each mass, frequencies 1 and 1 or 2
Formatted ==
  {[omega1 |-> R(1), omega2 |-> R(w2),
    coeffs1 |-> Coeffs(a, R(0), R(0), b), coeffs2 |-> Coeffs(b, R(0), R(0), a)] :
     a \in SolveCoefficients, b \in SolveCoefficients, w2 \in {1, 2}}

\* generateLatex(osc, maxDen) of latex.js, called with the bound of the page
GenerateLatexStringsCall(o, maxDen) ==
  /\ fcall = None
  /\ fcall' = [fn |-> "generateLatex", pc |-> "done", osc |-> o, maxDen |-> maxDen,
               result |-> generateLatex(o)]
  /\ UNCHANGED << params, thrown, osc, sol, ret, ft, ui >>

\* the caller takes what the last call returned
FractionReturn ==
  /\ fcall # None
  /\ fcall.pc = "done"
  /\ fcall' = None
  /\ UNCHANGED << params, thrown, osc, sol, ret, ft, ui >>

InitFraction ==
  /\ params = None
  /\ thrown = "none"
  /\ osc = None
  /\ sol = None
  /\ ret = None
  /\ ft = Idle
  /\ fcall = None
  /\ ui = None

NextFraction ==
  \/ \E num \in Ints, den \in Ints : ReduceFractionCall(num, den)
  \/ \E n \in Ints, d \in Ints : ReduceCall(n, d)
  \/ \E x \in Approximated, maxDen \in MaxDens, tolExp \in TolExps :
        DecimalToFractionCall(x, maxDen, tolExp)
  \/ DecimalToFractionStep
  \/ \E x \in Approximated, maxDen \in MaxDens : ToFractionCall(x, maxDen)
  \/ \E x \in Numbers, showPlus \in BOOLEAN, skipOne \in BOOLEAN :
        DecimalToLatexCall(x, showPlus, skipOne)
  \/ \E x \in Numbers, maxDen \in MaxDens, forceSign \in BOOLEAN :
        CoeffToLatexCall(x, maxDen, forceSign)
  \/ \E cw1 \in Coefficients, sw1 \in Coefficients,
        cw2 \in Coefficients, sw2 \in Coefficients :
        BuildExpressionCall(Coeffs(cw1, sw1, cw2, sw2))
  \/ \E c1 \in SolveCoefficients, s1 \in SolveCoefficients,
        c2 \in SolveCoefficients, s2 \in SolveCoefficients, maxDen \in {1, UiMaxDen} :
        BuildExprCall(Quad(c1, s1, c2, s2), maxDen)
  \/ \E num \in Ints, den \in Ints, showPlus \in BOOLEAN, skipOne \in BOOLEAN :
        FracToLatexCall(num, den, showPlus, skipOne)
  \/ \E n \in Ints, d \in Ints : FractionsFracToLatexCall(n, d)
  \/ \E o \in Formatted, maxDen \in {1, UiMaxDen} : GenerateLatexStringsCall(o, maxDen)
  \/ FractionReturn

FractionSpec == InitFraction /\ [][NextFraction]_vars

\* ------------------------------------------------------------------------
\* app.js: the busy state of the page
\* ------------------------------------------------------------------------
MaxTimers == 3   \* the most timers of minDelay waiting at a time
MaxSolves == 2   \* the most clicks on Solve of a run

Buttons == {"btn-solve", "btn-values", "btn-find-time"}

\* the display modes of the toggle buttons clicked
Toggles == {"position", "velocity"}

\* what Physics.solve does with the params of the page, as onSolve sees it:
\* its try / catch turns a throw into a rejection
Outcomes == {"returns", "throws"}

\* the timer of a minDelay(2000), with the request waiting for it: its kind,
\* the value its own promise resolved to, and whether Promise.all has been
\* settled (rejected) before the timer fires
Timer(kind, value) == [kind |-> kind, value |-> value, settled |-> FALSE]

\* the value Physics.solve returns on the n-th click on Solve
Solved(n) == [solve |-> n]

\* what renderPlot drew
Plot(result, toggle) == [result |-> result, toggle |-> toggle]

showSpinner(u, btn) == [u EXCEPT !.spinner[btn] = TRUE, !.disabled[btn] = TRUE]

hideSpinner(u, btn) == [u EXCEPT !.spinner[btn] = FALSE, !.disabled[btn] = FALSE]

\* the page once loaded: nothing solved, spinners and overlay hidden
InitUi ==
  /\ params = None
  /\ thrown = "none"
  /\ osc = None
  /\ sol = None
  /\ ret = None
  /\ ft = Idle
  /\ fcall = None
  /\ ui = [currentSolveResult |-> None, currentToggle |-> "position",
           spinner |-> [b \in Buttons |-> FALSE], disabled |-> [b \in Buttons |-> FALSE],
           overlay |-> "none", plot |-> None,
           latexOutput |-> "", valuesOutput |-> "", findOutput |-> "",
           timers |-> << >>, rejected |-> FALSE, solves |-> 0]

\* a click can be handled: no reaction of a promise is waiting to run, and a
\* timer more fits the bound of the model
Clickable == ui # None /\ ~ui.rejected

\* onSolve up to its return: the click on the enabled button, Physics.solve
\* run inside the first promise, and minDelay(2000) started; the result of the
\* n-th solve is Solved(n)
OnSolve(outcome) ==
  /\ Clickable
  /\ ~ui.disabled["btn-solve"]
  /\ Len(ui.timers) < MaxTimers
  /\ ui.solves < MaxSolves
  /\ ui' = [showSpinner(ui, "btn-solve") EXCEPT
              !.overlay = "flex",
              !.solves = ui.solves + 1,
              !.rejected = (outcome = "throws"),
              !.timers = Append(ui.timers,
                                Timer("solve", IF outcome = "returns"
                                                 THEN Solved(ui.solves + 1)
                                                 ELSE None))]
  /\ UNCHANGED << params, thrown, osc, sol, ret, ft, fcall >>

\* SolveRejected without the finally of onSolve
SolveRejectedNoFinally ==
  /\ ui # None
  /\ ui.rejected
  /\ ui' = [ui EXCEPT
              !.latexOutput = "error",
              !.rejected = FALSE,
              !.timers = [i \in DOMAIN ui.timers |->
                            IF ui.timers[i].kind = "solve"
                              THEN [ui.timers[i] EXCEPT !.settled = TRUE]
                              ELSE ui.timers[i]]]
  /\ UNCHANGED << params, thrown, osc, sol, ret, ft, fcall >>

\* the reactions to the rejection of Promise.all in onSolve, run before any
\* other event: then is skipped, catch writes the error, finally hides the
\* spinner and the overlay; the timer of the request stays, with nothing left
\* to do
SolveRejected ==
  /\ ui # None
  /\ ui.rejected
  /\ ui' = [hideSpinner(ui, "btn-solve") EXCEPT
              !.latexOutput = "error",
              !.overlay = "none",
              !.rejected = FALSE,
              !.timers = [i \in DOMAIN ui.timers |->
                            IF ui.timers[i].kind = "solve"
                              THEN [ui.timers[i] EXCEPT !.settled = TRUE]
                              ELSE ui.timers[i]]]
  /\ UNCHANGED << params, thrown, osc, sol, ret, ft, fcall >>

\* onToggle(toggle): nothing before the first solve; then the plot is drawn
\* again at once, the overlay shown and minDelay(2000) started
OnToggle(toggle) ==
  /\ Clickable
  /\ ui.currentSolveResult # None => Len(ui.timers) < MaxTimers
  /\ ui' = IF ui.currentSolveResult = None THEN ui
           ELSE [ui EXCEPT
                   !.currentToggle = toggle,
                   !.overlay = "flex",
                   !.plot = Plot(ui.currentSolveResult, toggle),
                   !.timers = Append(ui.timers, Timer("toggle", None))]
  /\ UNCHANGED << params, thrown, osc, sol, ret, ft, fcall >>

\* onValuesAtTime: the two early returns, or the spinner shown, the values
\* computed and minDelay(2000) started
OnValuesAtTime(validTime) ==
  /\ Clickable
  /\ ~ui.disabled["btn-values"]
  /\ (ui.currentSolveResult # None /\ validTime) => Len(ui.timers) < MaxTimers
  /\ ui' = IF ui.currentSolveResult = None
             THEN [ui EXCEPT !.valuesOutput = "Please solve first."]
           ELSE IF ~validTime
             THEN [ui EXCEPT !.valuesOutput = "Invalid time."]
           ELSE [showSpinner(ui, "btn-values") EXCEPT
                   !.timers = Append(ui.timers, Timer("values", ui.currentSolveResult))]
  /\ UNCHANGED << params, thrown, osc, sol, ret, ft, fcall >>

\* onFindFirstTime: the two early returns, or the spinner shown, the search
\* run and minDelay(2000) started
OnFindFirstTime(validTarget) ==
  /\ Clickable
  /\ ~ui.disabled["btn-find-time"]
  /\ (ui.currentSolveResult # None /\ validTarget) => Len(ui.timers) < MaxTimers
  /\ ui' = IF ui.currentSolveResult = None
             THEN [ui EXCEPT !.findOutput = "Please solve first."]
           ELSE IF ~validTarget
             THEN [ui EXCEPT !.findOutput = "Invalid target."]
           ELSE [showSpinner(ui, "btn-find-time") EXCEPT
                   !.timers = Append(ui.timers, Timer("find", ui.currentSolveResult))]
  /\ UNCHANGED << params, thrown, osc, sol, ret, ft, fcall >>

\* the page after the reactions then and finally of the request of the timer
\* h have run
Fulfilled(u, h) ==
  IF h.settled THEN u
  ELSE IF h.kind = "solve"
    THEN [hideSpinner(u, "btn-solve") EXCEPT
            !.currentSolveResult = h.value,
            !.plot = Plot(h.value, u.currentToggle),
            !.latexOutput = "formulas",
            !.overlay = "none"]
  ELSE IF h.kind = "toggle" THEN [u EXCEPT !.overlay = "none"]
  ELSE IF h.kind = "values"
    THEN [hideSpinner(u, "btn-values") EXCEPT !.valuesOutput = "values"]
  ELSE [hideSpinner(u, "btn-find-time") EXCEPT !.findOutput = "result"]

\* the oldest timer fires (all delays are 2000 ms, so timers fire in the
\* order they were set): minDelay resolves, Promise.all with it, and the
\* reactions of the request run before any other event
TimerFires ==
  /\ Clickable
  /\ ui.timers # << >>
  /\ ui' = [Fulfilled(ui, Head(ui.timers)) EXCEPT !.timers = Tail(ui.timers)]
  /\ UNCHANGED << params, thrown, osc, sol, ret, ft, fcall >>

NextUi ==
  \/ \E outcome \in Outcomes : OnSolve(outcome)
  \/ SolveRejected
  \/ \E toggle \in Toggles : OnToggle(toggle)
  \/ \E validTime \in BOOLEAN : OnValuesAtTime(validTime)
  \/ \E validTarget \in BOOLEAN : OnFindFirstTime(validTarget)
  \/ TimerFires

UiSpec == InitUi /\ [][NextUi]_vars

\* the event loop runs the reactions of a settled promise and fires a timer
\* whose delay has elapsed
UiFairSpec == UiSpec /\ WF_vars(SolveRejected) /\ WF_vars(TimerFires)

\* ------------------------------------------------------------------------
\* Properties
\* ------------------------------------------------------------------------

\* C1: a configuration with m1 <= 0 or m2 <= 0 is rejected with a ConfigError:
\* no oscillator and no solve result is ever built from it.
C1_NonPositiveMassRejected ==
  (params.m1 <= 0 \/ params.m2 <= 0) =>
    /\ osc = None
    /\ sol = None
    /\ thrown \in {"none", "ConfigError"}

\* the quantity of the running call is within tolerance of the target at t
Attained(t) ==
  WithinTolerance(FnMinusTarget(osc, ft.mass, ft.quantity, ft.target, t), ft.tolerance)

\* the times the scan of the running call samples: tMin, then tMin + j * dt
\* while that is at most tMax + dt / 2, the last one clamped to tMax
ScanSamples ==
  {ft.tMin} \cup
  {MinInt(ft.tMin + j * ft.dt, ft.tMax) :
     j \in {i \in 1 .. ((ft.tMax - ft.tMin) \div ft.dt) + 1 :
              2 * (ft.tMin + i * ft.dt) <= 2 * ft.tMax + ft.dt}}

\* a call with a positive step and a window that is not inverted has finished
DoneInOrder == ft.pc = "done" /\ ft.dt > 0 /\ ft.tMin <= ft.tMax

\* C2 (as stated): with dt > 0 and tMin <= tMax the returned time is the
\* earliest time of the window within tolerance of the target, and not-found
\* is returned only if no time of the window is.
C2_EarliestTime ==
  DoneInOrder =>
    IF ft.result = Null
      THEN \A t \in ft.tMin .. ft.tMax : ~Attained(t)
      ELSE /\ ft.result.t >= ft.tMin
           /\ Attained(ft.result.t)
           /\ \A t \in ft.tMin .. (ft.result.t - 1) : ~Attained(t)

\* C2 (amended): with dt > 0 and tMin <= tMax no scan sample before the
\* returned time is within tolerance, the returned time is within tolerance
\* unless the bisection used up its iterations, and not-found is returned
\* only if no scan sample is within tolerance.
C2_EarliestSample ==
  DoneInOrder =>
    IF ft.result = Null
      THEN \A t \in ScanSamples : ~Attained(t)
      ELSE /\ ft.result.t >= ft.tMin
           /\ Attained(ft.result.t) \/ ft.i >= MaxBisect
           /\ \A t \in ScanSamples : t < ft.result.t => ~Attained(t)

\* a bisection has returned a time after a time of the window, between two
\* samples, that was within tolerance
C2_Witness ==
  /\ DoneInOrder
  /\ ft.result # Null
  /\ ft.i > 0
  /\ Attained(ft.result.t)
  /\ \E t \in ft.tMin .. (ft.result.t - 1) : Attained(t) /\ t \notin ScanSamples

\* C3: every call of firstTimeTo terminates, whatever tMin, tMax, dt and
\* tolerance the caller passes, dt = 0 included, its scan loop being bounded by
\* the window: every pass of the scan loop that does not return moves t
\* forward, towards the end of the window.
C3_ScanAdvances ==
  [][(ft.pc = "body" /\ ft'.pc = "test") => ft'.t > ft.t]_vars

\* the j-th sample of the scan of the running call
SampleAt(j) == IF j = 0 THEN ft.tMin ELSE MinInt(ft.tMin + j * ft.dt, ft.tMax)

\* the indices of the samples the scan of the running call can reach
SampleIndices ==
  IF ft.dt = 0
    THEN (IF ft.tMin <= ft.tMax THEN {0, 1} ELSE {0})
    ELSE {0} \cup {i \in 1 .. ((ft.tMax - ft.tMin) \div ft.dt) + 1 :
                     2 * (ft.tMin + i * ft.dt) <= 2 * ft.tMax + ft.dt}

\* quantity - target of the running call at the j-th sample
SampleValue(j) ==
  FnMinusTarget(osc, ft.mass, ft.quantity, ft.target, SampleAt(j))

\* no sample is within tolerance of the target, and quantity - target does
\* not change sign between two consecutive samples
NotAttainedInWindow ==
  /\ \A j \in SampleIndices : ~WithinTolerance(SampleValue(j), ft.tolerance)
  /\ \A j \in SampleIndices \ {0} :
       ~Lt(Mul(SampleValue(j - 1), SampleValue(j)), R(0))

\* C4: when no sample of the window is within tolerance of the target and
\* there is no sign change between consecutive samples, the call reports
\* not-found and raises nothing.
C4_NotFound ==
  (ft.pc = "done" /\ NotAttainedInWindow) => (ft.result = Null /\ thrown = "none")

\* a scan of several samples has ended without a hit and without a sign change
C4_Witness ==
  /\ ft.pc = "done"
  /\ ft.dt > 0
  /\ ft.prevT > ft.tMin + ft.dt
  /\ NotAttainedInWindow
  /\ ft.result = Null

\* C5: every time the call returns lies in the closed window [tMin, tMax],
\* for every window and every dt > 0.
C5_InWindow ==
  (ft.pc = "done" /\ ft.dt > 0 /\ ft.result # Null) =>
    (ft.tMin <= ft.result.t /\ ft.result.t <= ft.tMax)

\* the initial velocity of a mass, as the instance stores it
InitialVelocity(mass) == R(IF mass = 1 THEN osc.v10 ELSE osc.v20)

\* C7: for every valid configuration, those with a zero eigenfrequency
\* included, the sum over both modes of omega_i times the sine coefficient of
\* each mass equals its initial velocity, in the instance and in the result of
\* Physics.solve, and velocity(mass, 0) returns that velocity.
C7_InitialVelocity ==
  /\ osc # None =>
       /\ EqR(Add(Mul(osc.omega1, osc.coeffs1.sw1), Mul(osc.omega2, osc.coeffs1.sw2)),
              R(params.v10))
       /\ EqR(Add(Mul(osc.omega1, osc.coeffs2.sw1), Mul(osc.omega2, osc.coeffs2.sw2)),
              R(params.v20))
  /\ sol # None =>
       /\ EqR(Add(Mul(sol.omega1, sol.coeffs.x1.s1), Mul(sol.omega2, sol.coeffs.x1.s2)),
              R(params.v10))
       /\ EqR(Add(Mul(sol.omega1, sol.coeffs.x2.s1), Mul(sol.omega2, sol.coeffs.x2.s2)),
              R(params.v20))
  /\ (ret # None /\ ret.op = "velocity" /\ ret.t = 0) =>
       EqR(ret.value, InitialVelocity(ret.mass))

\* one equation of motion, m * acc = kx * x + ky * y
Newton(m, acc, kx, x, ky, y) ==
  EqR(Mul(R(m), acc), Add(Mul(R(kx), x), Mul(R(ky), y)))

\* the coefficient of one trig term of a mass: slot is one of the four fields
CoeffAt(c, slot) ==
  IF slot = "cw1" THEN c.cw1 ELSE IF slot = "sw1" THEN c.sw1
  ELSE IF slot = "cw2" THEN c.cw2 ELSE c.sw2

\* minus the square of the frequency of the mode a slot belongs to
MinusOmegaSq(slot) ==
  IF slot \in {"cw1", "sw1"} THEN Neg(Mul(osc.omega1, osc.omega1))
  ELSE Neg(Mul(osc.omega2, osc.omega2))

\* C8: for every valid configuration and every time the values returned by
\* valueAtTime satisfy m1 a1 = -(k1 + k2) x1 + k2 x2 and
\* m2 a2 = k2 x1 - (k2 + k3) x2, and the same holds for the coefficients of
\* each of the four trig terms.
C8_EquationsOfMotion ==
  /\ osc # None =>
       \A slot \in {"cw1", "sw1", "cw2", "sw2"} :
         /\ Newton(osc.m1, Mul(MinusOmegaSq(slot), CoeffAt(osc.coeffs1, slot)),
                   -(osc.k1 + osc.k2), CoeffAt(osc.coeffs1, slot),
                   osc.k2, CoeffAt(osc.coeffs2, slot))
         /\ Newton(osc.m2, Mul(MinusOmegaSq(slot), CoeffAt(osc.coeffs2, slot)),
                   osc.k2, CoeffAt(osc.coeffs1, slot),
                   -(osc.k2 + osc.k3), CoeffAt(osc.coeffs2, slot))
  /\ (ret # None /\ ret.op = "valueAtTime") =>
       /\ Newton(osc.m1, ret.value.a1, -(osc.k1 + osc.k2), ret.value.x1,
                 osc.k2, ret.value.x2)
       /\ Newton(osc.m2, ret.value.a2, osc.k2, ret.value.x1,
                 -(osc.k2 + osc.k3), ret.value.x2)

\* valueAtTime has returned, at a time after 0, for a coupled system with
\* unequal masses and both masses accelerating
C8_Witness ==
  /\ ret # None
  /\ ret.op = "valueAtTime"
  /\ ret.t > 0
  /\ osc.branch = "normal"
  /\ osc.m1 # osc.m2
  /\ ~EqR(ret.value.a1, R(0))
  /\ ~EqR(ret.value.a2, R(0))
  /\ ~EqR(ret.value.a1, ret.value.a2)

\* the derivative of c cos(w t) + s sin(w t) as a (cos, sin) pair
DerivativePair(c, s, w) == [c |-> Mul(s, w), s |-> Neg(Mul(c, w))]

\* the second derivative of c cos(w t) + s sin(w t) as a (cos, sin) pair
SecondDerivativePair(c, s, w) ==
  [c |-> Neg(Mul(Mul(w, w), c)), s |-> Neg(Mul(Mul(w, w), s))]

\* the blocks q1 (of the derivative) and q0 of Physics.solve's coeffs are
\* related, pair by pair, as D(c, s, w) says
BlockIs(q1, D(_, _, _), q0, w1, w2) ==
  /\ EqR(q1.c1, D(q0.c1, q0.s1, w1).c)
  /\ EqR(q1.s1, D(q0.c1, q0.s1, w1).s)
  /\ EqR(q1.c2, D(q0.c2, q0.s2, w2).c)
  /\ EqR(q1.s2, D(q0.c2, q0.s2, w2).s)

\* the trig sum of the pairs D(c, s, w) of the position coefficients c0
SumOf(D(_, _, _), c0, w1, w2, t) ==
  TrigSum(D(c0.cw1, c0.sw1, w1).c, D(c0.cw1, c0.sw1, w1).s,
          D(c0.cw2, c0.sw2, w2).c, D(c0.cw2, c0.sw2, w2).s, w1, w2, t)

\* the coefficient of the term of a term list with this function and frequency
TermCoeff(terms, trigFn, omegaLabel) ==
  LET j == CHOOSE i \in 1 .. Len(terms) :
             terms[i].trigFn = trigFn /\ terms[i].omegaLabel = omegaLabel
  IN  terms[j].coeff

\* the terms of a term list are the pairs D(c, s, w) of the coefficients c0
TermsAre(terms, D(_, _, _), c0, w1, w2) ==
  /\ Len(terms) = 4
  /\ EqR(TermCoeff(terms, "cos", 1), D(c0.cw1, c0.sw1, w1).c)
  /\ EqR(TermCoeff(terms, "sin", 1), D(c0.cw1, c0.sw1, w1).s)
  /\ EqR(TermCoeff(terms, "cos", 2), D(c0.cw2, c0.sw2, w2).c)
  /\ EqR(TermCoeff(terms, "sin", 2), D(c0.cw2, c0.sw2, w2).s)

\* C9: velocity and acceleration are the analytic derivatives of position:
\* a position pair (c, s) at frequency w has the velocity pair (s w, -c w) and
\* the acceleration pair (-w^2 c, -w^2 s), in what velocity and acceleration
\* return, in the coefficient blocks of Physics.solve and in the terms
\* generateLatex hands to the renderer.
C9_AnalyticDerivatives ==
  /\ (ret # None /\ ret.op = "velocity") =>
       EqR(ret.value, SumOf(DerivativePair, SelectCoeffs(osc, ret.mass),
                            osc.omega1, osc.omega2, ret.t))
  /\ (ret # None /\ ret.op = "acceleration") =>
       EqR(ret.value, SumOf(SecondDerivativePair, SelectCoeffs(osc, ret.mass),
                            osc.omega1, osc.omega2, ret.t))
  /\ sol # None =>
       /\ BlockIs(sol.coeffs.v1, DerivativePair, sol.coeffs.x1, sol.omega1, sol.omega2)
       /\ BlockIs(sol.coeffs.v2, DerivativePair, sol.coeffs.x2, sol.omega1, sol.omega2)
       /\ BlockIs(sol.coeffs.a1, SecondDerivativePair, sol.coeffs.x1, sol.omega1, sol.omega2)
       /\ BlockIs(sol.coeffs.a2, SecondDerivativePair, sol.coeffs.x2, sol.omega1, sol.omega2)
  /\ (ret # None /\ ret.op = "generateLatex") =>
       /\ TermsAre(ret.value.sol1.v, DerivativePair, osc.coeffs1, osc.omega1, osc.omega2)
       /\ TermsAre(ret.value.sol2.v, DerivativePair, osc.coeffs2, osc.omega1, osc.omega2)
       /\ TermsAre(ret.value.sol1.a, SecondDerivativePair, osc.coeffs1, osc.omega1, osc.omega2)
       /\ TermsAre(ret.value.sol2.a, SecondDerivativePair, osc.coeffs2, osc.omega1, osc.omega2)

\* generateLatex has returned the terms of a coupled system in which every
\* velocity term of mass 1 has a non-zero coefficient
C9_Witness ==
  /\ ret # None
  /\ ret.op = "generateLatex"
  /\ osc.branch = "normal"
  /\ \A j \in 1 .. 4 : ~EqR(ret.value.sol1.v[j].coeff, R(0))
  /\ ~EqR(osc.omega1, osc.omega2)

\* C10: after construction from a valid configuration the stored angular
\* frequencies are ordered, 0 <= omega1 <= omega2, in every branch, in the
\* instance and in the result of Physics.solve.
C10_OrderedFrequencies ==
  /\ osc # None => (Le(R(0), osc.omega1) /\ Le(osc.omega1, osc.omega2))
  /\ sol # None => (Le(R(0), sol.omega1) /\ Le(sol.omega1, sol.omega2))

\* the motion of one mass m on one spring k from (x0, v0), at t ticks:
\* op is "position", "velocity" or "acceleration"
SingleOscillator(op, m, k, x0, v0, t) ==
  LET w   == Sqrt(Div(R(k), R(m)))
      b   == Div(R(v0), w)
      pos == Add(Mul(R(x0), Cos(w, t)), Mul(b, Sin(w, t)))
  IN  IF EqR(w, R(0))
        THEN (IF op = "position" THEN Add(R(x0), Mul(R(v0), Norm(t, TimeScale)))
              ELSE IF op = "velocity" THEN R(v0)
              ELSE R(0))
        ELSE (IF op = "position" THEN pos
              ELSE IF op = "velocity"
                THEN Add(Mul(Neg(Mul(R(x0), w)), Sin(w, t)), Mul(Mul(b, w), Cos(w, t)))
              ELSE Neg(Mul(Mul(w, w), pos)))

\* C11: with zero coupling what position, velocity and acceleration return
\* for mass 1 is the motion of a single oscillator of (m1, k1, x10, v10),
\* whatever (m2, k3, x20, v20) are, and symmetrically for mass 2.
C11_Independent ==
  (/\ ret # None
   /\ ret.op \in {"position", "velocity", "acceleration"}
   /\ osc.k2 = 0) =>
    EqR(ret.value,
        IF ret.mass = 1
          THEN SingleOscillator(ret.op, osc.m1, osc.k1, osc.x10, osc.v10, ret.t)
          ELSE SingleOscillator(ret.op, osc.m2, osc.k3, osc.x20, osc.v20, ret.t))

FiniteCoeffs(c) ==
  IsFinite(c.cw1) /\ IsFinite(c.sw1) /\ IsFinite(c.cw2) /\ IsFinite(c.sw2)

FiniteQuad(q) ==
  IsFinite(q.c1) /\ IsFinite(q.s1) /\ IsFinite(q.c2) /\ IsFinite(q.s2)

\* C12: whatever the valid configuration (equal eigenvalues, zero coupling and
\* zero frequency included), construction returns without raising and
\* omega1, omega2 and the eight position coefficients it leaves are finite
\* numbers; so are those of a Physics.solve result.
C12_FiniteFields ==
  /\ thrown = "none"
  /\ osc # None =>
       /\ IsFinite(osc.omega1) /\ IsFinite(osc.omega2)
       /\ FiniteCoeffs(osc.coeffs1) /\ FiniteCoeffs(osc.coeffs2)
  /\ sol # None =>
       /\ IsFinite(sol.omega1) /\ IsFinite(sol.omega2)
       /\ FiniteQuad(sol.coeffs.x1) /\ FiniteQuad(sol.coeffs.x2)

\* an instance with zero coupling, a zero frequency and a moving mass on it
C12_Witness ==
  /\ osc # None
  /\ osc.k2 = 0
  /\ EqR(osc.omega1, R(0))
  /\ osc.v10 # 0

\* what an evaluation call returns on an instance no call was made on before
Isolated(op, mass, t) ==
  LET fresh == Instance(params, Compute(params))
  IN  IF op = "position" THEN Position(fresh, mass, t)
      ELSE IF op = "velocity" THEN Velocity(fresh, mass, t)
      ELSE IF op = "acceleration" THEN Acceleration(fresh, mass, t)
      ELSE ValueAtTime(fresh, t)

EvalOps == {"position", "velocity", "acceleration", "valueAtTime"}

\* C13: once the instance is constructed no step of position, velocity,
\* acceleration, valueAtTime or firstTimeTo changes any of its fields, and
\* what an evaluation call returns after any sequence of earlier calls is
\* what it returns on a fresh instance.
C13_ReadOnly ==
  /\ [][osc # None => osc' = osc]_vars
  /\ []((ret # None /\ ret.op \in EvalOps) =>
          ret.value = Isolated(ret.op, ret.mass, ret.t))

\* a run of firstTimeTo that went through the scan and the bisection has
\* returned a time, the instance being as construction left it
C13_Witness ==
  /\ ret # None
  /\ ret.op = "firstTimeTo"
  /\ ret.value # Null
  /\ osc = Instance(params, Compute(params))

\* a finished call of one of the two approximators on a finite number
Approximation(fn) ==
  /\ fcall # None
  /\ fcall.fn = fn
  /\ fcall.pc = "done"
  /\ IsFinite(fcall.x)

\* the number a returned fraction stands for
ValueOf(f) == IF fcall.fn = "toFraction" THEN Norm(f.n, f.d) ELSE Div(f.num, f.den)

\* the fractions p/q nearest to x on either side, for the denominators up to
\* maxDen; x itself when its own denominator is among them
Candidates(x, maxDen) ==
  IF x.d <= maxDen THEN {x}
  ELSE UNION {{Norm(Floor(Mul(x, R(q))), q), Norm(Floor(Mul(x, R(q))) + 1, q)} :
              q \in 1 .. maxDen}

\* no candidate is closer to x than the value v by more than 10^-tolExp
NearestWithin(x, maxDen, v, tolExp) ==
  \A c \in Candidates(x, maxDen) :
    ~GtPow(Sub(AbsR(Sub(x, v)), AbsR(Sub(x, c))), tolExp)

\* no candidate is closer to x than the value v
Nearest(x, maxDen, v) ==
  \A c \in Candidates(x, maxDen) : ~Lt(AbsR(Sub(x, c)), AbsR(Sub(x, v)))

\* C14: for finite x with |x| >= tolerance and maxDen >= 1 the fraction
\* decimalToFraction returns is nearest to x, up to the tolerance, among the
\* fractions of denominator 1..maxDen, and the fraction toFraction returns is
\* nearest to x among them.
C14_Nearest ==
  /\ (Approximation("decimalToFraction") /\ ~BelowTol(fcall.x, fcall.tolExp)) =>
       NearestWithin(fcall.x, fcall.maxDen, ValueOf(fcall.result), fcall.tolExp)
  /\ (Approximation("toFraction") /\ ~EqR(fcall.x, R(0))) =>
       Nearest(fcall.x, fcall.maxDen, ValueOf(fcall.result))

\* C15: approximating a number p/q in lowest terms with q <= maxDen returns
\* exactly (p, q), whatever its sign and its integer part: decimalToFraction
\* at its default tolerance, and toFraction.
C15_ExactRecovery ==
  /\ (/\ Approximation("decimalToFraction")
      /\ fcall.tolExp = DefaultTolExp
      /\ fcall.x.d <= fcall.maxDen) =>
       fcall.result = Fraction(R(fcall.x.n), R(fcall.x.d))
  /\ (Approximation("toFraction") /\ fcall.x.d <= fcall.maxDen) =>
       fcall.result = Frac(fcall.x.n, fcall.x.d)

\* C16: for finite x and maxDen >= 1 the fraction decimalToFraction returns
\* has 0 < den <= maxDen, is in lowest terms or is the zero 0/1, and its num
\* is zero or has the sign of x.
C16_WellFormed ==
  Approximation("decimalToFraction") =>
    LET f == fcall.result
    IN  /\ IsFinite(f.num) /\ f.num.d = 1
        /\ IsFinite(f.den) /\ f.den.d = 1
        /\ 0 < f.den.n /\ f.den.n <= fcall.maxDen
        /\ \/ GCD(AbsInt(f.num.n), f.den.n) = 1
           \/ f = Fraction(R(0), R(1))
        /\ f.num.n = 0 => f.den.n = 1
        /\ f.num.n # 0 => SgnInt(f.num.n) = SgnInt(fcall.x.n)

\* a negative number that is not an integer has been approximated, the loop
\* having run, by a fraction that is not an integer
C16_Witness ==
  /\ Approximation("decimalToFraction")
  /\ fcall.x.n < 0
  /\ fcall.st # None
  /\ fcall.st.iter > 1
  /\ fcall.result.den.n > 1

\* a finished call of fn on +Infinity, -Infinity or NaN
NonFiniteCall(fn) ==
  /\ fcall # None
  /\ fcall.fn = fn
  /\ fcall.pc = "done"
  /\ fcall.x \in NonFinites

\* the sentinel {num: +/-Infinity, den: 1}
IsSentinel(f) == f \in {Fraction(PosInf, R(1)), Fraction(NegInf, R(1))}

\* C17: on +Infinity, -Infinity and NaN the approximators raise nothing and
\* return the sentinel (num = +/-Infinity, den = 1), and the formatters render
\* such a number as the infinity symbol.
C17_Sentinel ==
  /\ thrown = "none"
  /\ NonFiniteCall("decimalToFraction") => IsSentinel(fcall.result)
  /\ NonFiniteCall("toFraction") => IsSentinel(fcall.result)
  /\ NonFiniteCall("decimalToLatex") => fcall.result.body = "\\infty"
  /\ NonFiniteCall("coeffToLatex") => fcall.result.body = "\\infty"

\* a finished call of reduceFraction or of reduce on a denominator that is not 0
Reduction(fn) ==
  /\ fcall # None
  /\ fcall.fn = fn
  /\ fcall.pc = "done"
  /\ (IF fn = "reduce" THEN fcall.d ELSE fcall.den) # 0

\* (n, d) is num/den in lowest terms with the sign on n
LowestTerms(n, d, num, den) ==
  /\ d > 0
  /\ GCD(AbsInt(n), d) = 1
  /\ n * den = num * d
  /\ num = 0 => (n = 0 /\ d = 1)

\* C18: for integers num and den # 0 reduceFraction returns (n, d) with d > 0,
\* gcd(|n|, d) = 1 and n * den = num * d, (0, 1) when num = 0, and returns its
\* own result unchanged; so does reduce of fractions.js.
C18_Reduced ==
  /\ Reduction("reduceFraction") =>
       LET f == fcall.result
       IN  /\ IsFinite(f.num) /\ f.num.d = 1
           /\ IsFinite(f.den) /\ f.den.d = 1
           /\ LowestTerms(f.num.n, f.den.n, fcall.num, fcall.den)
           /\ reduceFraction(f.num, f.den) = f
  /\ Reduction("reduce") =>
       /\ LowestTerms(fcall.result.n, fcall.result.d, fcall.n, fcall.d)
       /\ Fractions_reduce(fcall.result) = fcall.result

\* a fraction with a common factor and a negative denominator has been reduced
C18_Witness ==
  /\ Reduction("reduceFraction")
  /\ fcall.num > 0
  /\ fcall.den < 0
  /\ GCD(fcall.num, -fcall.den) > 1
  /\ fcall.result.num.n < 0

\* a finished call of one of the two expression builders
Built(fn) == fcall # None /\ fcall.fn = fn /\ fcall.pc = "done"

\* the rational approximation of the coefficient of a term is not zero
ApproxNonZero(term) ==
  ~EqR(decimalToFraction(term.coeff, DefaultMaxDen, DefaultTolExp).num, R(0))

\* the coefficients handed to buildExpr, in input order
Vals == << fcall.c.c1, fcall.c.s1, fcall.c.c2, fcall.c.s2 >>

\* the rational approximation of the i-th coefficient handed to buildExpr is
\* not zero
ApproxNonZeroAt(i) ==
  /\ ~EqR(Vals[i], R(0))
  /\ Fractions_toFraction(AbsR(Vals[i]), fcall.maxDen).n # 0

\* the parts are the terms kept, one each and in their order, none of them
\* with a coefficient 0, and the text is 0 when there is none
RendersKept(result, trigs) ==
  /\ Len(result.parts) = Len(trigs)
  /\ \A i \in 1 .. Len(trigs) :
       /\ result.parts[i].trig = trigs[i]
       /\ result.parts[i].body # "0"

\* C19: an expression built from the four coefficients holds, in input order
\* (cos w1, sin w1, cos w2, sin w2), one term for each coefficient whose
\* rational approximation is not zero and no term with a zero coefficient,
\* and is the literal 0 when no term is left.
C19_OmitsZeroTerms ==
  /\ Built("buildExpression") =>
       LET kept == SelectSeq(fcall.terms, ApproxNonZero)
       IN  /\ RendersKept(fcall.result, [i \in 1 .. Len(kept) |-> TrigText(kept[i])])
           /\ kept = << >> => fcall.result.text = "0"
  /\ Built("buildExpr") =>
       LET kept == SelectSeq(<< 1, 2, 3, 4 >>, ApproxNonZeroAt)
       IN  /\ RendersKept(fcall.result, [i \in 1 .. Len(kept) |-> Trigs(kept[i])])
           /\ kept = << >> => fcall.result.text = "x_1(t) = 0"

\* the coefficient of the term a part was written for
CoeffOf(part) ==
  IF fcall.fn = "buildExpression"
    THEN fcall.terms[CHOOSE i \in 1 .. 4 : TrigText(fcall.terms[i]) = part.trig].coeff
    ELSE Vals[CHOOSE i \in 1 .. 4 : Trigs(i) = part.trig]

\* the sign characters of a first term and of a later term
SignText(negative, first) ==
  IF fcall.fn = "buildExpression"
    THEN (IF negative THEN "-" ELSE IF first THEN "" ELSE "+")
    ELSE (IF first THEN (IF negative THEN "-" ELSE "")
          ELSE (IF negative THEN " - " ELSE " + "))

\* C20: in a built expression the first term written has no plus sign, and a
\* minus sign exactly when its coefficient is negative; every later term has
\* a plus or a minus sign, by the sign of its coefficient, however many terms
\* were skipped before it.
C20_SignPlacement ==
  (Built("buildExpression") \/ Built("buildExpr")) =>
    \A i \in 1 .. Len(fcall.result.parts) :
      fcall.result.parts[i].sign =
        SignText(Lt(CoeffOf(fcall.result.parts[i]), R(0)), i = 1)

\* the first and the third term were skipped, the second written with a minus
\* sign and the fourth with a plus sign
C20_Witness ==
  /\ Built("buildExpression")
  /\ ~ApproxNonZero(fcall.terms[1])
  /\ ~ApproxNonZero(fcall.terms[3])
  /\ Len(fcall.result.parts) = 2
  /\ fcall.result.parts[1].sign = "-"
  /\ fcall.result.parts[2].sign = "+"

\* the text of a magnitude n/d that is not elided
MagnitudeText(n, d) ==
  IF d = 1 THEN ToString(n) ELSE "\\frac{" \o ToString(n) \o "}{" \o ToString(d) \o "}"

\* what is written for the coefficient n/d (in lowest terms, d > 0, n # 0)
\* of a trig term: nothing when its magnitude is one, its magnitude otherwise
Elided(body, n, d) ==
  IF AbsInt(n) = d THEN body = "" ELSE body = MagnitudeText(AbsInt(n), d)

Rendered(n, d, plus) ==
  IF n = 0 THEN Latex("", "0")
  ELSE Latex(IF n < 0 THEN "-" ELSE IF plus THEN "+" ELSE "", MagnitudeText(AbsInt(n), d))

\* C22: a fraction (num, den) with den > 0 is rendered as 0 when num = 0, as
\* the bare signed integer when den = 1, and otherwise as \frac{|num|}{den}
\* after a minus sign when num < 0, after a plus sign when num > 0 and a plus
\* is asked for, and after nothing otherwise (no elision asked for).
C22_Rendering ==
  /\ (Built("fracToLatex") /\ fcall.den > 0 /\ ~fcall.skipOne) =>
       fcall.result = Rendered(fcall.num, fcall.den, fcall.showPlus)
  /\ (Built("Fractions.fracToLatex") /\ fcall.d > 0) =>
       fcall.result = Rendered(fcall.n, fcall.d, FALSE)
  /\ (Built("coeffToLatex") /\ IsFinite(fcall.x)) =>
       LET frac == Fractions_toFraction(fcall.x, fcall.maxDen)
       IN  fcall.result = Rendered(frac.n, frac.d, fcall.forceSign)

\* the magnitude written is empty or a fraction of denominator at most m
DenominatorWithin(body, m) ==
  \/ body = ""
  \/ \E n \in 0 .. MaxNumer, d \in 1 .. m : body = MagnitudeText(n, d)

\* the coefficients of an expression have denominators at most m
ExpressionWithin(expression, m) ==
  \A i \in 1 .. Len(expression.parts) : DenominatorWithin(expression.parts[i].body, m)

\* C23: the formulas honour the bound maxDenominator of the caller: every
\* rational coefficient of the formula strings returned (x1, v1, a1, x2, v2,
\* a2) has a denominator at most maxDenominator.
C23_HonoursMaxDen ==
  /\ Built("generateLatex") =>
       /\ ExpressionWithin(fcall.result.x1, fcall.maxDen)
       /\ ExpressionWithin(fcall.result.v1, fcall.maxDen)
       /\ ExpressionWithin(fcall.result.a1, fcall.maxDen)
       /\ ExpressionWithin(fcall.result.x2, fcall.maxDen)
       /\ ExpressionWithin(fcall.result.v2, fcall.maxDen)
       /\ ExpressionWithin(fcall.result.a2, fcall.maxDen)
  /\ Built("buildExpr") => ExpressionWithin(fcall.result, fcall.maxDen)

\* a symmetric system released at rest: equal masses, equal outer springs
\* and a coupling spring
SymmetricAtRest(o) ==
  /\ o.m1 = o.m2
  /\ o.k1 = o.k3
  /\ o.k2 > 0
  /\ o.v10 = 0
  /\ o.v20 = 0

\* the coefficient quadruple c is the quadruple d, resp. its negation
SameCoeffs(c, d) ==
  \A slot \in {"cw1", "sw1", "cw2", "sw2"} : EqR(CoeffAt(c, slot), CoeffAt(d, slot))

NegatedCoeffs(c, d) ==
  \A slot \in {"cw1", "sw1", "cw2", "sw2"} : EqR(CoeffAt(c, slot), Neg(CoeffAt(d, slot)))

\* C24: in a symmetric system (m1 = m2, k1 = k3, k2 > 0) with zero initial
\* velocities, equal initial displacements give position(1, t) =
\* position(2, t) at every t and opposite ones give position(1, t) =
\* -position(2, t): the coefficient quadruples of the two masses are equal,
\* respectively negated.
C24_NormalModes ==
  (osc # None /\ SymmetricAtRest(osc)) =>
    /\ osc.x10 = osc.x20 =>
         /\ SameCoeffs(osc.coeffs2, osc.coeffs1)
         /\ \A t \in EvalTimes : EqR(Position(osc, 1, t), Position(osc, 2, t))
         /\ (ret # None /\ ret.op = "valueAtTime") => EqR(ret.value.x1, ret.value.x2)
    /\ osc.x10 = -osc.x20 =>
         /\ NegatedCoeffs(osc.coeffs2, osc.coeffs1)
         /\ \A t \in EvalTimes : EqR(Position(osc, 1, t), Neg(Position(osc, 2, t)))
         /\ (ret # None /\ ret.op = "valueAtTime") => EqR(ret.value.x1, Neg(ret.value.x2))

\* the out-of-phase mode of a symmetric system, evaluated after time 0 with
\* both masses away from rest position
C24_Witness ==
  /\ osc # None
  /\ SymmetricAtRest(osc)
  /\ osc.x10 = 1
  /\ osc.x20 = -1
  /\ ret # None
  /\ ret.op = "valueAtTime"
  /\ ret.t > 0
  /\ ~EqR(ret.value.x1, R(0))
  /\ EqR(ret.value.x2, Neg(ret.value.x1))

\* a call of firstTimeTo with a positive step and a non-empty window
ProperScan == ft.pc # "idle" /\ ft.dt > 0 /\ ft.tMin < ft.tMax

\* C25: with dt > 0 and tMin < tMax the samples of the coarse scan are
\* strictly increasing and none exceeds tMax, and when no sample produced a
\* hit the last sample evaluated is exactly tMax, whatever the remainder of
\* (tMax - tMin) by dt.
C25_ScanCoversWindow ==
  ProperScan =>
    /\ ft.pc = "body" =>
         /\ ft.prevT < MinInt(ft.t, ft.tMax)
         /\ MinInt(ft.t, ft.tMax) <= ft.tMax
    /\ (ft.pc = "done" /\ ft.result = Null) => ft.prevT = ft.tMax

\* quantity - target at the time t, for the call in progress
CallF(t) == FnMinusTarget(osc, ft.mass, ft.quantity, ft.target, t)

\* the sample the scan loop is at
CurT == MinInt(ft.t, ft.tMax)

\* the bracket of the bisection lies inside [prevT, curT], and quantity -
\* target has opposite or zero sign at its two ends
Bracketed ==
  /\ ft.prevT <= ft.lo
  /\ ft.lo <= ft.hi
  /\ ft.hi <= CurT
  /\ Le(Mul(CallF(ft.lo), CallF(ft.hi)), R(0))

\* a step of firstTimeTo handles a hit as it should: a sample within tolerance
\* is returned as it is, and a bisection returns a point of its bracket
HitStep ==
  /\ (ft.pc = "idle" /\ ft'.pc # "idle" /\ WithinTolerance(ft'.prevF, ft'.tolerance)) =>
       (ft'.pc = "done" /\ ft'.result = Time(ft'.tMin))
  /\ (ft.pc = "body" /\ WithinTolerance(CallF(CurT), ft.tolerance)) =>
       (ft'.pc = "done" /\ ft'.result = Time(CurT))
  /\ (ft.pc = "body" /\ ft'.pc = "bisect") =>
       (ft'.lo = ft.prevT /\ ft'.hi = CurT /\ ft'.i = 0)
  /\ (ft.pc = "bisect" /\ ft'.pc = "done") =>
       (ft'.result # Null /\ ft.lo <= ft'.result.t /\ ft'.result.t <= ft.hi)

\* C26: a sample within tolerance (tMin included) is returned as it is,
\* with no bisection; after a sign change between two consecutive samples
\* prevT < curT the bisection runs at most 60 steps, keeps at every step a
\* bracket [lo, hi] inside [prevT, curT] at whose ends quantity - target has
\* opposite or zero sign, and returns a point of that bracket.
C26_HitHandling ==
  /\ [](ft.pc = "bisect" => (ft.i <= MaxBisect /\ Bracketed))
  /\ [][HitStep]_vars

\* a bisection that has narrowed its bracket at both ends
C26_Witness ==
  /\ ft.pc = "bisect"
  /\ ft.i >= 2
  /\ ft.prevT < ft.lo
  /\ ft.hi < CurT
  /\ ft.lo < ft.hi

\* the loop of decimalToFraction is running
InLoop(call) == call # None /\ call.fn = "decimalToFraction" /\ call.pc = "loop"

\* the denominator of the mediant of a bracket
MediantDen(st) == st.lo.d + st.hi.d

\* lo_n/lo_d <= |x| <= hi_n/hi_d (1/0 being +infinity), hi_n lo_d - lo_n hi_d
\* = 1, and the mediant in lowest terms
SternBrocot(st, ax) ==
  /\ Le(Norm(st.lo.n, st.lo.d), ax)
  /\ st.hi.d = 0 \/ Le(ax, Norm(st.hi.n, st.hi.d))
  /\ st.hi.n * st.lo.d - st.lo.n * st.hi.d = 1
  /\ GCD(st.lo.n + st.hi.n, MediantDen(st)) = 1

\* from one pass of the loop to the next the mediant denominator grows and
\* the best error does not
MediantAdvance ==
  /\ (InLoop(fcall) /\ InLoop(fcall')) => MediantDen(fcall'.st) > MediantDen(fcall.st)
  /\ (InLoop(fcall) /\ fcall' # None) => Le(fcall'.st.best.err, fcall.st.best.err)

\* C27: at every iteration of the mediant search the bracket satisfies
\* lo_n/lo_d <= |x| <= hi_n/hi_d (1/0 = +infinity) and hi_n lo_d - lo_n hi_d
\* = 1, so that every mediant is in lowest terms, the mediant denominators
\* strictly increase and the best error tracked never increases.
C27_SternBrocot ==
  /\ [](InLoop(fcall) => SternBrocot(fcall.st, AbsR(fcall.x)))
  /\ [][MediantAdvance]_vars

\* the kind of the requests of a button
KindOf(btn) ==
  IF btn = "btn-solve" THEN "solve" ELSE IF btn = "btn-values" THEN "values" ELSE "find"

\* a request of the kind is pending: its timer has not fired and its
\* Promise.all is not settled
Pending(kind) ==
  \E i \in DOMAIN ui.timers : ui.timers[i].kind = kind /\ ~ui.timers[i].settled

Busy(btn) == ui.spinner[btn] \/ ui.disabled[btn]

\* a step that ends a failed solve, or fires the timer it left behind, leaves
\* currentSolveResult as it was
FailedSolveKeepsResult ==
  (\/ ui.rejected
   \/ ui'.rejected
   \/ ui.timers # << >> /\ Head(ui.timers).settled /\ ui'.timers = Tail(ui.timers))
    => ui'.currentSolveResult = ui.currentSolveResult

\* C28: for any sequence of clicks on Solve, Values-at-time and
\* Find-first-time, every spinner shown, and the button it disabled, is
\* eventually hidden and enabled again, and is so once the 2000 ms delay of
\* its request has elapsed, also when Physics.solve throws; a failed solve
\* leaves the current solve result unchanged.
C28_BusyClears ==
  /\ \A btn \in Buttons : Busy(btn) ~> (~ui.spinner[btn] /\ ~ui.disabled[btn])
  /\ [](\A btn \in Buttons : Busy(btn) => Pending(KindOf(btn)))
  /\ [][FailedSolveKeepsResult]_vars

\* a solve that threw after one that returned: the error is shown, the
\* button is enabled again and the result of the first solve is kept
C28_Witness ==
  /\ ui.solves = 2
  /\ ui.latexOutput = "error"
  /\ ui.currentSolveResult = Solved(1)
  /\ ~ui.rejected
  /\ ~Busy("btn-solve")

\* C29: under any interleaving of clicks on Solve and on the display-mode
\* toggles, the plot overlay is visible at every moment a solve or a re-plot
\* request is still pending and hidden only when none is: the completion of
\* one request never hides the overlay of another still in flight.
C29_OverlayWhilePending ==
  (Pending("solve") \/ Pending("toggle")) => ui.overlay = "flex"
====
